---- MODULE Spec2Model ----
(***************************************************************************)
(* Verification model of the Synapse reliable-UDP core:                    *)
(*   - ReliableBuffer, the sliding sequence buffer                         *)
(*   - ReliableOrderedChannel, the reliable-ordered message channel        *)
(*   - rUDPConnetion, the packet-level ack engine                          *)
(* Every operator names the function of the source it is translated from.  *)
(***************************************************************************)
EXTENDS Integers, Sequences, FiniteSets, TLC

(***************************************************************************)
(* Bounds of the model.                                                    *)
(***************************************************************************)
\* max_connection_count: connection slots of one channel object.
MaxConnections == 3
\* log2 of the message receive / sent queue sizes (sizes must divide 65536).
QueueBits == 1
\* log2 of the message send queue size.
SendQueueBits == 2
\* Connection slots that SendMessage is called on in the send-only specification.
MaxSendConnections == 2
\* SendMessage calls in all, over every connection, in the shared-queue specification.
MaxSharedSends == 3
\* max_messages_per_packet.
MaxMessagesPerPacket == 2
\* How far past a fresh receive window the ids on the wire reach.
MaxBeyond == 1
\* Connection slots that receive traffic in the receive-side specifications.
MaxRecvConnections == 1
\* Connection slots that are driven in the send-pump specification.
MaxPumpConnections == 1
\* SendMessage calls explored per connection beyond the send queue size.
MaxExtraSends == 1
\* max_number_of_fragments: fragments of one block.
MaxFragments == 2
\* number_of_channels: the channels that share a packet.
NumberOfChannels == 2
\* Packet sequence numbers the transport hands to the channel.
MaxPacketSequence == 2
\* A packet budget (bits) that holds the channel header and a whole fragment.
LargeBudget == 12000
\* GetTime() advances in steps of TimeStep milliseconds, MaxTicks times.
TimeStep == 150
MaxTicks == 2
\* log2 of sent_packet_buffer_size and received_packets_buffer_size.
PacketBufferBits == 1
\* acknowledge_buffer_size: capacity of the per-connection acknowledgement list.
AckBufferSize == 2
\* Packets an endpoint sends beyond sent_packet_buffer_size.
MaxOverrun == 1
\* Packets the two endpoints of a connection send together.
MaxLinkPackets == 4
\* Datagrams the network holds towards one endpoint on one connection.
MaxInFlight == 2
\* Connection slots that carry packets in the transport specifications.
MaxLinkConnections == 1
\* max_packet_size, in bytes.
MaxPacketSize == 4
\* fragment_above: payloads of more bytes are sent as fragments.
FragmentAbove == 1
\* fragment_size of rUDPConnetion: payload bytes of one fragment datagram.
FragmentSize == 2
\* max_number_of_fragments of rUDPConnetion.
MaxPacketFragments == 2
\* log2 of fragment_reassembly_buffer_size.
ReassemblyBufferBits == 1
\* Stale packets an endpoint is given on one connection.
MaxStale == 1
\* Reassembled packets an endpoint hands on when datagrams are delivered again.
MaxHandedPackets == 2
\* Fragments an endpoint counts, as received or as invalid, when datagrams are
\* delivered again.
MaxFragmentsCounted == 4
\* How far around 0, 32768 and 65535 the compared sequence numbers reach.
SeqSpread == 2
\* How far from 0, 32768 and 65535 the sequences reach that the window of a
\* ReliableBuffer is moved to.
WindowSpread == 1
\* log2 of max_element_number of the ReliableBuffer exercised on its own.
UnitBufferBits == 1
\* Connections of that buffer that are used.
MaxUnitConnections == 2
\* The sequences it is called with reach this many windows ahead.
MaxUnitWindows == 3
\* rUDPConnetion::Reset calls made on one endpoint.
MaxResets == 1
\* Acknowledgements the receive path appends while a consumer thread reads the list.
MaxRacedAcks == 3
\* UnreliableUnorderedChannel on its own: send_queue_size and
\* receive_queue_size (1024 by default), max_connection_count, the number
\* of threads calling SendMessage, and the message buffers allotted in a run.
UnreliableQueueSize == 2
MaxUnreliableConnections == 2
NumProducers == 2
MaxUnreliableMessages == 3
\* Lock on its own: the threads that use it (ids 1, 2, ...), the guards one
\* thread holds at a time, the WriteLock and ReadLock calls one thread makes,
\* and the runs of read guard scopes one thread makes.
MaxLockThreads == 2
MaxLockGuards == 2
MaxLockCalls == 3
MaxScopeRuns == 1
\* JobQueue on its own: the threads that push to it or work off the global
\* queue, the jobs pushed in a run, and the hand-offs at the end of a time
\* slice.
MaxJobThreads == 3
MaxJobs == 3
MaxHandOffs == 1
\* BitWriter / BitReader: the longest byte string written with WriteBytes,
\* and the words of the buffer it is written to.
MaxBytes == 8
ByteBufferWords == 4

(***************************************************************************)
(* Program constants.                                                      *)
(***************************************************************************)
\* std::uint16_t wraps at 65536.
SeqMod == 65536
\* Half of the sequence space, the threshold of SequenceGreaterThan.
HalfSeq == 32768
\* Stands for std::numeric_limits<uint32_t>::max(), the "no entry" marker of
\* m_entry_sequence: any value outside 0..65535 behaves identically.
EMPTY == 65536
\* Lock: the low half of m_lock_flag counts the read locks, the high half
\* holds the thread id of the write owner.
READ_COUNT_MASK == 65535
EMPTY_FLAG == [write_thread |-> 0, read_count |-> 0]
LockThreads == 1 .. MaxLockThreads
JobThreads == 1 .. MaxJobThreads

message_send_queue_size == 2 ^ SendQueueBits
message_receive_queue_size == 2 ^ QueueBits
message_sent_queue_size == 2 ^ QueueBits
\* Template defaults of ReliableOrderedChannel.
max_fragment_size == 1024
message_resend_time_milliseconds == 100
fragment_resend_time_milliseconds == 250
max_message_type_number == 65535
CHAR_BIT == 8
\* Template parameters of rUDPConnetion.
sent_packet_buffer_size == 2 ^ PacketBufferBits
received_packets_buffer_size == 2 ^ PacketBufferBits
acknowledge_buffer_size == AckBufferSize
max_packet_size == MaxPacketSize
fragment_above == FragmentAbove
fragment_size == FragmentSize
max_number_of_fragments == MaxPacketFragments
fragment_reassembly_buffer_size == 2 ^ ReassemblyBufferBits
MIN_RUDP_HEADER_BYTES == 4
MAX_RUDP_HEADER_BYTES == 9
FRAGMENT_HEADER_BYTES == 5
\* Width of the acknowledgement bit field (uint32_t ack_bits).
AckBits == 32

Conns == 0 .. (MaxConnections - 1)
SendConns == {c \in Conns : c < MaxSendConnections}
RecvConns == {c \in Conns : c < MaxRecvConnections}
PumpConns == {c \in Conns : c < MaxPumpConnections}
LinkConns == {c \in Conns : c < MaxLinkConnections}
\* The two rUDPConnetion objects of a link; each is the other's peer and both
\* use the same connection index for it.
Endpoints == {0, 1}
Peer(e) == 1 - e
U16(x) == x % SeqMod

\* enum ErrorLevel
ERROR_NONE == "None"
CHANNEL_ERROR_DESYNC == "Desync"
CHANNEL_ERROR_SEND_QUEUE_FULL == "SendQueueFull"
CHANNEL_ERROR_FAILED_TO_SERIALISE == "FailedToSerialise"
CHANNEL_ERROR_OUT_OF_MEMORY == "OutOfMemory"
ErrorLevel == {ERROR_NONE, CHANNEL_ERROR_DESYNC, CHANNEL_ERROR_SEND_QUEUE_FULL,
               CHANNEL_ERROR_FAILED_TO_SERIALISE, CHANNEL_ERROR_OUT_OF_MEMORY}

(***************************************************************************)
(* Sequence arithmetic.                                                    *)
(***************************************************************************)
\* The comparison without wrap handling.
SequenceGreaterThan_Plain(s1, s2) == s1 > s2

SequenceGreaterThan(s1, s2) ==
    \/ (s1 > s2 /\ s1 - s2 <= HalfSeq)
    \/ (s1 < s2 /\ s2 - s1 > HalfSeq)

SequenceLessThan(s1, s2) == SequenceGreaterThan(s2, s1)

(***************************************************************************)
(* ReliableBuffer<T, N, connection_count>.  A buffer value is a record     *)
(*   m_sequence       : [Conns -> 0..65535]                                *)
(*   m_entry_sequence : [Conns -> [0..N-1 -> 0..65535 \cup {EMPTY}]]       *)
(*   m_entry_data     : [Conns -> [0..N-1 -> T]]                           *)
(* N is passed to the operators because TLA+ has no templates.            *)
(***************************************************************************)
RB_ResetAll(N, t0) ==
    [m_sequence       |-> [c \in Conns |-> 0],
     m_entry_sequence |-> [c \in Conns |-> [i \in 0 .. (N - 1) |-> EMPTY]],
     m_entry_data     |-> [c \in Conns |-> [i \in 0 .. (N - 1) |-> t0]]]

RB_Reset(rb, N, t0, c) ==
    [m_sequence       |-> [rb.m_sequence EXCEPT ![c] = 0],
     m_entry_sequence |-> [rb.m_entry_sequence EXCEPT ![c] = [i \in 0 .. (N - 1) |-> EMPTY]],
     m_entry_data     |-> [rb.m_entry_data EXCEPT ![c] = [i \in 0 .. (N - 1) |-> t0]]]

RB_GetIndex(N, sequence) == sequence % N

\* No sequence is ever too old.
RB_TestInsert_Always(rb, N, c, sequence) == TRUE

RB_TestInsert(rb, N, c, sequence) ==
    ~SequenceLessThan(sequence, U16(rb.m_sequence[c] - N))

\* RemoveEntries without the fold of a range that ends behind the end of
\* the 16-bit range: such a range is empty.
RB_RemoveEntries_NoFold(rb, N, c, start_sequence, finish_sequence) ==
    LET row == rb.m_entry_sequence[c]
    IN  IF finish_sequence - start_sequence < N
        THEN [i \in 0 .. (N - 1) |->
                IF \E s \in start_sequence .. finish_sequence : s % N = i
                THEN EMPTY ELSE row[i]]
        ELSE [i \in 0 .. (N - 1) |-> EMPTY]

\* RemoveEntries(connection_index, start_sequence, finish_sequence): the new
\* m_entry_sequence row of connection c.
RB_RemoveEntries(rb, N, c, start_sequence, finish_sequence) ==
    LET fin == IF finish_sequence < start_sequence
               THEN finish_sequence + SeqMod ELSE finish_sequence
        row == rb.m_entry_sequence[c]
    IN  IF fin - start_sequence < N
        THEN [i \in 0 .. (N - 1) |->
                IF \E s \in start_sequence .. fin : s % N = i THEN EMPTY ELSE row[i]]
        ELSE [i \in 0 .. (N - 1) |-> EMPTY]

\* Insert(connection_index, sequence).  Result: [ok, rb]; ok = FALSE is the
\* nullptr return (sequence too old).  The caller checks the index asserts.
RB_Insert(rb, N, c, sequence) ==
    LET isNew  == SequenceGreaterThan(U16(sequence + 1), rb.m_sequence[c])
        tooOld == ~isNew /\ SequenceLessThan(sequence, U16(rb.m_sequence[c] - N))
        swept  == IF isNew
                  THEN RB_RemoveEntries(rb, N, c, rb.m_sequence[c], sequence)
                  ELSE rb.m_entry_sequence[c]
    IN  IF tooOld
        THEN [ok |-> FALSE, rb |-> rb]
        ELSE [ok |-> TRUE,
              rb |-> [rb EXCEPT
                        !.m_sequence[c] = IF isNew THEN U16(sequence + 1) ELSE @,
                        !.m_entry_sequence[c] =
                            [swept EXCEPT ![RB_GetIndex(N, sequence)] = sequence]]]

RB_Remove(rb, N, c, sequence) ==
    [rb EXCEPT !.m_entry_sequence[c][RB_GetIndex(N, sequence)] = EMPTY]

RB_Available(rb, N, c, sequence) ==
    rb.m_entry_sequence[c][RB_GetIndex(N, sequence)] = EMPTY

RB_Exists(rb, N, c, sequence) ==
    rb.m_entry_sequence[c][RB_GetIndex(N, sequence)] = sequence

\* Find returns a pointer; the model splits it into the test and the read.
RB_Find(rb, N, c, sequence) == RB_Exists(rb, N, c, sequence)
RB_Data(rb, N, c, sequence) == rb.m_entry_data[c][RB_GetIndex(N, sequence)]

RB_SetData(rb, N, c, sequence, d) ==
    [rb EXCEPT !.m_entry_data[c][RB_GetIndex(N, sequence)] = d]

RB_GetAtIndexPresent(rb, c, index) == rb.m_entry_sequence[c][index] # EMPTY

\* The cleanup_function every ...WithCleanup call of the program passes:
\* Global::GMemory->Release(faragment->packet_data) on an entry of the
\* reassembly buffer.  The pointer itself is left as it was; alloc tells
\* whether it is null, live, released, or was released once more after that.
cleanup_function(faragment) ==
    [faragment EXCEPT !.packet_data = << >>,
                      !.alloc = IF @ = "null" THEN "null"
                                ELSE IF @ = "live" THEN "released"
                                ELSE "released twice"]

\* Some packet_data of connection c of the buffer was released twice.
ReleasedTwice(rb, c) ==
    \E i \in DOMAIN rb.m_entry_data[c] : rb.m_entry_data[c][i].alloc = "released twice"

\* The slots RemoveEntries / RemoveEntriesWithCleanup visit.
RB_SweptSlots(N, start_sequence, finish_sequence) ==
    LET fin == IF finish_sequence < start_sequence
               THEN finish_sequence + SeqMod ELSE finish_sequence
    IN  IF fin - start_sequence < N
        THEN {s % N : s \in start_sequence .. fin}
        ELSE 0 .. (N - 1)

\* RemoveEntriesWithCleanup(connection_index, start_sequence, finish_sequence,
\* cleanup_function): cleanup_function runs on every visited slot, occupied
\* or not.
RB_RemoveEntriesWithCleanup(rb, N, c, start_sequence, finish_sequence) ==
    LET swept == RB_SweptSlots(N, start_sequence, finish_sequence)
    IN  [rb EXCEPT
           !.m_entry_sequence[c] = [i \in 0 .. (N - 1) |-> IF i \in swept THEN EMPTY ELSE @[i]],
           !.m_entry_data[c] =
               [i \in 0 .. (N - 1) |-> IF i \in swept THEN cleanup_function(@[i]) ELSE @[i]]]

\* InsertWithCleanup(connection_index, sequence, cleanup_function).
\* Result: [ok, rb]; ok = FALSE is the nullptr return.
RB_InsertWithCleanup(rb, N, c, sequence) ==
    LET isNew  == SequenceGreaterThan(U16(sequence + 1), rb.m_sequence[c])
        tooOld == ~isNew /\ SequenceLessThan(sequence, U16(rb.m_sequence[c] - N))
        swept  == IF isNew
                  THEN [RB_RemoveEntriesWithCleanup(rb, N, c, rb.m_sequence[c], sequence)
                           EXCEPT !.m_sequence[c] = U16(sequence + 1)]
                  ELSE rb
        index  == RB_GetIndex(N, sequence)
    IN  IF tooOld
        THEN [ok |-> FALSE, rb |-> rb]
        ELSE [ok |-> TRUE,
              rb |-> [swept EXCEPT
                        !.m_entry_data[c][index] =
                            IF swept.m_entry_sequence[c][index] # EMPTY
                            THEN cleanup_function(@) ELSE @,
                        !.m_entry_sequence[c][index] = sequence]]

\* RemoveWithCleanup(connection_index, sequence, cleanup_function)
RB_RemoveWithCleanup(rb, N, c, sequence) ==
    LET index == RB_GetIndex(N, sequence)
    IN  IF rb.m_entry_sequence[c][index] # EMPTY
        THEN [rb EXCEPT !.m_entry_sequence[c][index] = EMPTY,
                        !.m_entry_data[c][index] = cleanup_function(@)]
        ELSE rb

\* AdvanceSequence(connection_index, sequence)
RB_AdvanceSequence(rb, N, c, sequence) ==
    IF SequenceGreaterThan(U16(sequence + 1), rb.m_sequence[c])
    THEN [rb EXCEPT
            !.m_entry_sequence[c] = RB_RemoveEntries(rb, N, c, rb.m_sequence[c], sequence),
            !.m_sequence[c] = U16(sequence + 1)]
    ELSE rb

\* AdvanceSequenceWithCleanup(connection_index, sequence, cleanup_function)
RB_AdvanceSequenceWithCleanup(rb, N, c, sequence) ==
    IF SequenceGreaterThan(U16(sequence + 1), rb.m_sequence[c])
    THEN [RB_RemoveEntriesWithCleanup(rb, N, c, rb.m_sequence[c], sequence)
            EXCEPT !.m_sequence[c] = U16(sequence + 1)]
    ELSE rb

(***************************************************************************)
(* ChannelMessage and the queue entries.                                   *)
(***************************************************************************)
\* ChannelMessage{} : the default-initialised message (message_data is
\* represented by the body value it points at; NoBody is nullptr).
NoBody == 0
ChannelMessage0 ==
    [message_protocol |-> 0, message_id |-> 0, is_block |-> FALSE, block_size |-> 0,
     body |-> NoBody, block |-> << >>]

\* What a producer hands to the k-th SendMessage call: protocol tag and payload.
ProtocolOf(k) == 10 + k
BodyOf(k) == 20 + k

MessageSendQueueEntry0 ==
    [m_channel_message |-> ChannelMessage0, measuredBits |-> 0, block |-> FALSE,
     time_last_sent |-> 0]
MessageReceiveQueueEntry0 == [m_channel_message |-> ChannelMessage0]
\* messageIds is the index in m_sent_packet_message_ids_array the pointer is
\* set to.
SentPacketEntry0 ==
    [numMessageIds |-> 0, messageIds |-> 0, acked |-> FALSE, block |-> FALSE,
     block_message_id |-> 0, block_fragment_id |-> 0, time_sent |-> 0]
\* sent_packet_entry->messageIds[0 .. numMessageIds - 1]
PacketMessageIds(array, sent_packet_entry) ==
    [i \in 1 .. sent_packet_entry.numMessageIds |->
        array[sent_packet_entry.messageIds + i - 1]]

Fragments == 0 .. (MaxFragments - 1)
\* SendBlockData after Reset().
SendBlockData0 ==
    [active |-> FALSE, block_size |-> 0, number_of_fragments |-> 0,
     number_of_acked_fragments |-> 0, block_message_id |-> 0, acked_fragment |-> {},
     fragment_send_time |-> [f \in Fragments |-> 0]]
\* ReceiveBlockData after its constructor; received_fragment is the set of
\* the bits that are set, block_data holds one value per fragment slot.
ReceiveBlockData0 ==
    [active |-> FALSE, number_of_fragments |-> 0, number_of_received_fragments |-> 0,
     message_id |-> 0, block_size |-> 0, received_fragment |-> {},
     block_data |-> [f \in Fragments |-> 0], message |-> ChannelMessage0]
\* ReceiveBlockData::Reset() after the caller released message.message_data:
\* block_data and the other fields of message stay.
ReceiveBlockReset(rb) ==
    [rb EXCEPT !.active = FALSE, !.number_of_fragments = 0,
               !.number_of_received_fragments = 0, !.message_id = 0, !.block_size = 0,
               !.received_fragment = {},
               !.message.body = NoBody, !.message.block = << >>]

\* PacketHandler::GetMessageSizeInBits: the handler of the model serialises
\* every message body in one fixed-width field.
MessageBodyBits == 16

(***************************************************************************)
(* State.                                                                  *)
(***************************************************************************)
VARIABLES
    m_error_level_array,          \* [Conns -> ErrorLevel]
    m_send_message_ids,           \* [Conns -> 0..65535]
    m_receive_message_ids,        \* [Conns -> 0..65535]
    m_oldest_unacked_message_ids, \* [Conns -> 0..65535]
    m_message_send_queues,        \* ReliableBuffer<MessageSendQueueEntry>
    m_message_receive_queues,     \* ReliableBuffer<MessageReceiveQueueEntry>
    m_counters_array,             \* [Conns -> [sent, received]]
    m_sent_packets,               \* ReliableBuffer<SentPacketEntry>
    m_sent_packet_message_ids_array, \* the message ids of the sent packets: one array for all connections
    m_send_blocks,                \* [Conns -> SendBlockData]
    m_receive_blocks,             \* [Conns -> ReceiveBlockData]
    now,                          \* what the connection manager's GetTime() returns
    crashed,                      \* an ASSERT_CRASH failed: the process is gone
    oob_write,                    \* a store outside an allocation happened
    sends,                        \* history: SendMessage calls made per connection
    accepted,                     \* history: messages SendMessage enqueued, per connection
    delivered,                    \* history: messages ReceiveMessage returned, per connection
    last_op,                      \* history: the last operation, its connection and outcome
    fragments_fed,                \* history: fragments of the block at receive_id handed to ProcessPacketFragment
    in_flight,                    \* the regular-mode channel payload last written, and the messages put in it
    rudp_sequence,                \* rUDPConnetion::m_sequence of each endpoint
    rudp_sent_packets,            \* rUDPConnetion::m_sent_packets of each endpoint
    rudp_received_packets,        \* rUDPConnetion::m_received_packets of each endpoint
    m_acknowledgments,            \* [Endpoints -> [Conns -> [0..acknowledge_buffer_size-1 -> 0..65535]]]
    m_number_of_acknowledgements, \* [Endpoints -> [Conns -> Int]]
    wire,                         \* datagrams in flight to each endpoint, per connection
    marked,                       \* history: sequences whose SentPacketData was marked acked
    appended,                     \* history: sequences appended to the acknowledgement list
    acceptedBy,                   \* history: sequences whose packet the endpoint accepted
    outran,                       \* history: the endpoint sent past a packet that had left the ack window unacked
    reported,                     \* history: own sequences that accepted packets reported as received
    skipped,                      \* history: reported sequences that met a full acknowledgement list
    m_fragment_reassembly,        \* rUDPConnetion::m_fragment_reassembly of each endpoint
    rudp_counters,                \* rUDPConnetion::m_counters: the fragment counters of each endpoint
    fragmented,                   \* history: the payloads an endpoint sent as fragments, by sequence
    fed,                          \* history: the fragment datagrams an endpoint was given, as <<sequence, fragment_id>>
    gmemory,                      \* history: what became of the buffers Global::GMemory handed out for reassembly
    resets,                       \* history: Reset calls made, per endpoint and connection
    handed,                       \* history: the packets reassembly handed to the regular receive path
    buffer,                       \* a ReliableBuffer<T, max_element_number, connection_count> used on its own
    retained,                     \* history: per connection, the sequences inserted and neither removed nor swept since
    receive_path,                 \* the receive thread inside the append of ReceiveRegularPacket: its position and what it loaded
    consumer,                     \* the consumer thread inside GetAcknowledgements / ClearAcknowledgements: its position and what it loaded
    observed,                     \* history: the acknowledgements the consumer read from the list, in order
    m_lock_flag,                  \* Lock: [write_thread, read_count], the two halves of the atomic flag
    m_write_count,                \* Lock: 0..65535
    ndebug,                       \* whether the build leaves DEBUG_ASSERT out
    lock_threads,                 \* [LockThreads -> where a thread is in a Lock call and the guards it holds]
    lock_failed,                  \* a DEBUG_ASSERT of Lock has fired
    m_jobs,                       \* JobQueue: the jobs in its LockQueue, oldest first
    m_job_count,                  \* JobQueue: std::atomic<std::int32_t>
    m_job_queues,                 \* GlobalQueue: how many times the JobQueue is queued in it
    job_threads,                  \* [JobThreads -> where a thread is in Push, Execute or DoGlobalQueueWork]
    job_history,                  \* history: jobs pushed, jobs run, and hand-offs at the end of a time slice
    call_args,                    \* the arguments a function is called with, when one is checked on its own
    call_result,                  \* what that call returned; NoCall before it is made
    m_message_send_queue,         \* UnreliableUnorderedChannel: per connection, the atomic send queue (m_head, m_tail, m_elements)
    m_message_receive_queue,      \* UnreliableUnorderedChannel: per connection, the atomic receive queue
    m_error_level,                \* UnreliableUnorderedChannel: per connection, the error level
    unreliable_counters,          \* UnreliableUnorderedChannel: per connection, MESSAGES_SENT and MESSAGES_RECEIVED of m_counters_array
    message_memory,               \* the message_data buffers: how many were allotted, which were released and which were released twice
    producers,                    \* the threads inside SendMessage: position, message, ticket and loaded counter of each
    pump_thread,                  \* the pump thread inside GetPacketData: position, ticket
    unreliable_op                 \* history: the last operation on the unreliable channel and what was queued when it began

\* fragments_fed: the fragments of one block fed so far.  nf is the block's
\* fragment count (0: nothing fed yet), bytes the size of its last fragment
\* (0: not fed yet), fids the fragment ids fed; mixed is set once the
\* fragments fed do not belong to one well-formed block.
NothingFed == [nf |-> 0, bytes |-> 0, fids |-> {}, mixed |-> FALSE]
MixedFed == [nf |-> 0, bytes |-> 0, fids |-> {}, mixed |-> TRUE]
Feed(h, r) ==
    LET last == r.fid = r.nf - 1
    IN  IF \/ h.mixed
           \/ (~last /\ r.bytes # max_fragment_size)
           \/ (h.nf # 0 /\ h.nf # r.nf)
           \/ (last /\ h.bytes # 0 /\ h.bytes # r.bytes)
        THEN MixedFed
        ELSE [nf |-> r.nf, bytes |-> IF last THEN r.bytes ELSE h.bytes,
              fids |-> h.fids \cup {r.fid}, mixed |-> FALSE]

\* in_flight before anything was written.
NoPacket == [c |-> 0, n |-> 0, message_ids |-> << >>, messages |-> << >>, s |-> << >>]

sendVars == <<m_send_message_ids, m_oldest_unacked_message_ids, m_message_send_queues>>
recvVars == <<m_receive_message_ids, m_message_receive_queues>>
pumpVars == <<m_sent_packets, m_sent_packet_message_ids_array, m_send_blocks, now>>
faultVars == <<crashed, oob_write>>
histVars == <<sends, accepted, delivered, last_op, fragments_fed>>
linkHist == <<marked, appended, acceptedBy, outran, reported, skipped>>
fragVars == <<m_fragment_reassembly, rudp_counters, fragmented, fed, handed, gmemory, resets>>
\* The state of the components that are exercised on their own; the
\* channel and the transport never touch it.
lockVars == <<m_lock_flag, m_write_count, ndebug, lock_threads, lock_failed>>
jobVars == <<m_jobs, m_job_count, m_job_queues, job_threads, job_history>>
threadVars == <<receive_path, consumer, observed, lockVars, jobVars>>
unreliableVars == <<m_message_send_queue, m_message_receive_queue, m_error_level,
                    unreliable_counters, message_memory, producers, pump_thread, unreliable_op>>
unitVars == <<buffer, retained, threadVars, call_args, call_result, unreliableVars>>
linkVars == <<rudp_sequence, rudp_sent_packets, rudp_received_packets, m_acknowledgments,
              m_number_of_acknowledgements, wire, linkHist, fragVars, unitVars>>
channelVars == <<m_error_level_array, sendVars, recvVars, m_counters_array, pumpVars,
                 m_receive_blocks, oob_write, sends, accepted, delivered, fragments_fed,
                 in_flight, unitVars>>
\* The state of the channel and of the transport.
programVars == <<m_error_level_array, sendVars, recvVars, m_counters_array, pumpVars,
                 m_receive_blocks, faultVars, histVars, in_flight, rudp_sequence,
                 rudp_sent_packets, rudp_received_packets, m_acknowledgments,
                 m_number_of_acknowledgements, wire, linkHist, fragVars>>
vars == <<m_error_level_array, sendVars, recvVars, m_counters_array, pumpVars,
          m_receive_blocks, faultVars, histVars, in_flight, linkVars>>

Op(name, c, note) == [op |-> name, c |-> c, note |-> note, s |-> << >>, ret |-> 0]
OpIn(name, c, note, s) == [op |-> name, c |-> c, note |-> note, s |-> s, ret |-> 0]
OpOut(name, c, note, s, ret) == [op |-> name, c |-> c, note |-> note, s |-> s, ret |-> ret]

ChannelInit ==
    /\ m_error_level_array = [c \in Conns |-> ERROR_NONE]
    /\ m_send_message_ids = [c \in Conns |-> 0]
    /\ m_receive_message_ids = [c \in Conns |-> 0]
    /\ m_oldest_unacked_message_ids = [c \in Conns |-> 0]
    /\ m_message_send_queues = RB_ResetAll(message_send_queue_size, MessageSendQueueEntry0)
    /\ m_message_receive_queues = RB_ResetAll(message_receive_queue_size, MessageReceiveQueueEntry0)
    /\ m_counters_array = [c \in Conns |-> [sent |-> 0, received |-> 0]]
    /\ m_sent_packets = RB_ResetAll(message_sent_queue_size, SentPacketEntry0)
    /\ m_sent_packet_message_ids_array =
           [i \in 0 .. ((MaxMessagesPerPacket * message_sent_queue_size * MaxConnections) - 1) |-> 0]
    /\ m_send_blocks = [c \in Conns |-> SendBlockData0]
    /\ m_receive_blocks = [c \in Conns |-> ReceiveBlockData0]

\* struct SentPacketData / ReceivedPacketData, value-initialised; the time and
\* packet_bytes fields feed statistics only and are left out.
SentPacketData0 == [acked |-> FALSE]
ReceivedPacketData0 == [received |-> FALSE]
\* struct FragmentReassemblyData, value-initialised.  packet_data is the
\* buffer it points at, << >> for nullptr; a byte of Uninit was never
\* written.  alloc tells whether the pointer is null, live or released.
Uninit == 0 - 1
FragmentReassemblyData0 ==
    [sequence |-> 0, ack |-> 0, ack_bits |-> {}, num_fragments_received |-> 0,
     num_fragments_total |-> 0, packet_data |-> << >>, alloc |-> "null",
     packet_bytes |-> 0, packet_header_bytes |-> 0, fragment_received |-> {}]
\* m_counters after fill(0): the counters of the fragment path and the
\* stale counter of the regular path.
Counters0 ==
    [FragmentedPacketsSent |-> 0, FragmantedPacketsReceived |-> 0,
     InvalidFragmantedPackets |-> 0, StalePackets |-> 0]

\* rUDPConnetion::ResetAll, on both endpoints, and an empty network.
LinkInit ==
    /\ rudp_sequence = [e \in Endpoints |-> [c \in Conns |-> 0]]
    /\ rudp_sent_packets =
           [e \in Endpoints |-> RB_ResetAll(sent_packet_buffer_size, SentPacketData0)]
    /\ rudp_received_packets =
           [e \in Endpoints |-> RB_ResetAll(received_packets_buffer_size, ReceivedPacketData0)]
    /\ m_acknowledgments =
           [e \in Endpoints |-> [c \in Conns |->
               [i \in 0 .. (acknowledge_buffer_size - 1) |-> 0]]]
    /\ m_number_of_acknowledgements = [e \in Endpoints |-> [c \in Conns |-> 0]]
    /\ wire = [e \in Endpoints |-> [c \in Conns |-> << >>]]
    /\ marked = [e \in Endpoints |-> [c \in Conns |-> {}]]
    /\ appended = [e \in Endpoints |-> [c \in Conns |-> << >>]]
    /\ acceptedBy = [e \in Endpoints |-> [c \in Conns |-> {}]]
    /\ outran = [e \in Endpoints |-> [c \in Conns |-> FALSE]]
    /\ reported = [e \in Endpoints |-> [c \in Conns |-> {}]]
    /\ skipped = [e \in Endpoints |-> [c \in Conns |-> {}]]
    /\ m_fragment_reassembly =
           [e \in Endpoints |->
               RB_ResetAll(fragment_reassembly_buffer_size, FragmentReassemblyData0)]
    /\ rudp_counters = [e \in Endpoints |-> [c \in Conns |-> Counters0]]
    /\ fragmented = [e \in Endpoints |-> [c \in Conns |-> << >>]]
    /\ fed = [e \in Endpoints |-> [c \in Conns |-> {}]]
    /\ handed = [e \in Endpoints |-> [c \in Conns |-> << >>]]
    /\ gmemory = [e \in Endpoints |-> [c \in Conns |->
                     [released_twice |-> FALSE, leaked |-> FALSE]]]
    /\ resets = [e \in Endpoints |-> [c \in Conns |-> 0]]

\* No call made.
NoCall == [op |-> "none"]
\* max_element_number of the buffer used on its own, its connections and
\* the sequences it is called with.
max_element_number == 2 ^ UnitBufferBits
UnitConns == {c \in Conns : c < MaxUnitConnections}
UnitSequences == 0 .. ((MaxUnitWindows * max_element_number) - 1)
\* ReliableBuffer(): ResetAll.
BufferInit ==
    /\ buffer = RB_ResetAll(max_element_number, 0)
    /\ retained = [c \in Conns |-> {}]

\* The state the constructors leave: ReliableOrderedChannel::ResetAll and
\* rUDPConnetion::ResetAll.
ProgramInit ==
    /\ ChannelInit
    /\ LinkInit
    /\ now = 0
    /\ crashed = FALSE
    /\ oob_write = FALSE
    /\ sends = [c \in Conns |-> 0]
    /\ accepted = [c \in Conns |-> << >>]
    /\ delivered = [c \in Conns |-> << >>]
    /\ fragments_fed = [c \in Conns |-> NothingFed]
    /\ in_flight = NoPacket
    /\ last_op = Op("none", 0, {})

\* An atomic queue after its constructor: every element empty.
UConns == {c \in Conns : c < MaxUnreliableConnections}
Producers == 1 .. NumProducers
NoElement == [stored |-> FALSE, message_data |-> 0]
EmptyQueue ==
    [m_head |-> 0, m_tail |-> 0, m_elements |-> [i \in 0 .. (UnreliableQueueSize - 1) |-> NoElement]]
NoCounters == [MESSAGES_SENT |-> 0, MESSAGES_RECEIVED |-> 0]
\* UnreliableUnorderedChannel(connection_manager): ResetAll on empty queues;
\* no thread inside the channel.
UnreliableInit ==
    /\ m_message_send_queue = [c \in UConns |-> EmptyQueue]
    /\ m_message_receive_queue = [c \in UConns |-> EmptyQueue]
    /\ m_error_level = [c \in UConns |-> ERROR_NONE]
    /\ unreliable_counters = [c \in UConns |-> NoCounters]
    /\ message_memory = [allotted |-> 0, released |-> {}, twice |-> {}]
    /\ producers = [p \in Producers |-> [pc |-> "idle", message_data |-> 0, head |-> 0, loaded |-> 0]]
    /\ pump_thread = [pc |-> "idle", tail |-> 0]
    /\ unreliable_op = [op |-> "none", cs |-> {}, queued |-> {}]

\* Both threads outside the acknowledgement list.
RaceInit ==
    /\ receive_path = [pc |-> "idle", index |-> 0, ack_sequence |-> 0, pending |-> {}]
    /\ consumer = [pc |-> "idle", number_of_acknowledgements |-> 0, loaded |-> 0]
    /\ observed = << >>

\* Lock as constructed (m_lock_flag = EMPTY_FLAG, m_write_count = 0) in a
\* build with or without DEBUG_ASSERT, no thread in a call.
LockInit(release) ==
    /\ m_lock_flag = EMPTY_FLAG
    /\ m_write_count = 0
    /\ ndebug = release
    /\ lock_threads = [t \in LockThreads |-> [pc |-> "idle", expected |-> 0, guards |-> << >>,
                                              calls |-> 0, scopes |-> 0]]
    /\ lock_failed = FALSE

\* A JobQueue without jobs (m_job_count = 0), not in the global queue, and
\* no thread in a call.
JobInit ==
    /\ m_jobs = << >>
    /\ m_job_count = 0
    /\ m_job_queues = 0
    /\ job_threads = [t \in JobThreads |->
                         [pc |-> "idle", prevCount |-> 0, pushOnly |-> FALSE, jobs |-> << >>,
                          jobCount |-> 0, CurrentJobQueue |-> "nullptr", via |-> "none"]]
    /\ job_history = [pushed |-> 0, run |-> << >>, handoffs |-> 0]

ThreadInit ==
    /\ RaceInit
    /\ LockInit(FALSE)
    /\ JobInit

Init ==
    /\ ProgramInit
    /\ BufferInit
    /\ ThreadInit
    /\ UnreliableInit
    /\ call_args = NoCall
    /\ call_result = NoCall

GetErrorLevel(c) == m_error_level_array[c]

CanSendMessage(c) ==
    RB_Available(m_message_send_queues, message_send_queue_size, c, m_send_message_ids[c])

HasMessagesToSend(c) == m_oldest_unacked_message_ids[c] # m_send_message_ids[c]

\* The (connection_index, sequence) pair SendMessage hands to
\* m_message_send_queues.Insert(int connection_index, uint16_t sequence):
\* the call is Insert(m_send_message_ids[connection_index], connection_index).
SendInsertArgs(c, id) == [connection_index |-> id, sequence |-> c]

\* The bytes of fragment f of the block under message id m.
DataOf(m, f) == 40 + (MaxFragments * m) + f

\* (int)std::ceil(blockSize / float(max_fragment_size))
FragmentsOf(block_size) == (block_size + max_fragment_size - 1) \div max_fragment_size

\* The block sizes a producer attaches: 0 is a regular message, the others
\* need one and two fragments.
BlockSizes == {0, 1, max_fragment_size + 1}

(***************************************************************************)
(* SendMessage(connection_index, message).  The k-th call on a connection  *)
(* carries protocol ProtocolOf(k) and body BodyOf(k); block_size > 0 makes *)
(* it a block message (the asserts of lines 304-305 hold for BlockSizes).  *)
(***************************************************************************)
SendMessage(c, block_size) ==
    LET k      == sends[c]
        id     == m_send_message_ids[c]
        arg    == SendInsertArgs(c, id)
        msg    == [message_protocol |-> ProtocolOf(k), message_id |-> id,
                   is_block |-> block_size > 0, block_size |-> block_size,
                   body |-> BodyOf(k),
                   block |-> [i \in 1 .. FragmentsOf(block_size) |-> DataOf(id, i - 1)]]
        ins    == RB_Insert(m_message_send_queues, message_send_queue_size,
                            arg.connection_index, arg.sequence)
        entry  == [m_channel_message |-> msg, measuredBits |-> MessageBodyBits,
                   block |-> msg.is_block, time_last_sent |-> -1]
    IN
    /\ ~crashed
    /\ sends[c] < message_send_queue_size + MaxExtraSends
    /\ sends' = [sends EXCEPT ![c] = @ + 1]
    /\ IF GetErrorLevel(c) # ERROR_NONE
       THEN /\ last_op' = Op("SendMessage", c, {"error"})
            /\ UNCHANGED <<m_error_level_array, sendVars, m_counters_array, crashed, accepted>>
       ELSE IF ~CanSendMessage(c)
       THEN /\ m_error_level_array' = [m_error_level_array EXCEPT ![c] = CHANNEL_ERROR_SEND_QUEUE_FULL]
            /\ last_op' = Op("SendMessage", c, {"full"})
            /\ UNCHANGED <<sendVars, m_counters_array, crashed, accepted>>
       ELSE IF arg.connection_index \notin Conns \/ ~ins.ok
       THEN \* ASSERT_CRASH(connection_index < connection_count) in Insert, or
            \* ASSERT_CRASH(entry) after a nullptr return
            /\ crashed' = TRUE
            /\ last_op' = Op("SendMessage", c, {"assert"})
            /\ UNCHANGED <<m_error_level_array, sendVars, m_counters_array, accepted>>
       ELSE /\ m_message_send_queues' =
                   RB_SetData(ins.rb, message_send_queue_size,
                              arg.connection_index, arg.sequence, entry)
            /\ m_counters_array' = [m_counters_array EXCEPT ![c].sent = @ + 1]
            /\ m_send_message_ids' = [m_send_message_ids EXCEPT ![c] = U16(@ + 1)]
            /\ accepted' = [accepted EXCEPT ![c] = Append(@, msg)]
            /\ last_op' = Op("SendMessage", c, {"accepted"})
            /\ UNCHANGED <<m_error_level_array, m_oldest_unacked_message_ids, crashed>>
    /\ UNCHANGED <<recvVars, pumpVars, m_receive_blocks, delivered, oob_write, fragments_fed>>
    /\ UNCHANGED <<linkVars, in_flight>>

(***************************************************************************)
(* ReceiveMessage(connection_index, message)                               *)
(***************************************************************************)
ReceiveMessage(c) ==
    LET rid   == m_receive_message_ids[c]
        found == RB_Find(m_message_receive_queues, message_receive_queue_size, c, rid)
        msg   == RB_Data(m_message_receive_queues, message_receive_queue_size, c, rid).m_channel_message
    IN
    /\ ~crashed
    /\ IF GetErrorLevel(c) # ERROR_NONE \/ ~found
       THEN /\ last_op' = Op("ReceiveMessage", c, {"false"})
            /\ UNCHANGED <<recvVars, m_counters_array, crashed, delivered, fragments_fed>>
       ELSE IF msg.message_id # rid
       THEN \* ASSERT_CRASH(message.message_id == m_receive_message_ids[c])
            /\ crashed' = TRUE
            /\ last_op' = Op("ReceiveMessage", c, {"assert"})
            /\ UNCHANGED <<recvVars, m_counters_array, delivered, fragments_fed>>
       ELSE /\ m_message_receive_queues' =
                   RB_Remove(m_message_receive_queues, message_receive_queue_size, c, rid)
            /\ m_counters_array' = [m_counters_array EXCEPT ![c].received = @ + 1]
            /\ m_receive_message_ids' = [m_receive_message_ids EXCEPT ![c] = U16(@ + 1)]
            /\ delivered' = [delivered EXCEPT ![c] = Append(@, msg)]
            /\ fragments_fed' =
                   [fragments_fed EXCEPT ![c] =
                       \* fragments of the next block that were taken before it
                       \* became the receive position are not on record
                       IF \/ m_message_receive_queues.m_sequence[c] # U16(rid + 1)
                          \/ m_receive_blocks[c].active
                       THEN MixedFed ELSE NothingFed]
            /\ last_op' = Op("ReceiveMessage", c, {"true"})
            /\ UNCHANGED crashed
    /\ UNCHANGED <<m_error_level_array, sendVars, pumpVars, m_receive_blocks,
                   sends, accepted, oob_write>>
    /\ UNCHANGED <<linkVars, in_flight>>

(***************************************************************************)
(* Reset(connection_index): a new session on the slot.  The histories of   *)
(* the slot start again with it.                                           *)
(***************************************************************************)
Reset(c) ==
    /\ ~crashed
    /\ m_error_level_array' = [m_error_level_array EXCEPT ![c] = ERROR_NONE]
    /\ m_send_message_ids' = [m_send_message_ids EXCEPT ![c] = 0]
    /\ m_receive_message_ids' = [m_receive_message_ids EXCEPT ![c] = 0]
    /\ m_oldest_unacked_message_ids' = [m_oldest_unacked_message_ids EXCEPT ![c] = 0]
    /\ m_message_send_queues' =
           RB_Reset(m_message_send_queues, message_send_queue_size, MessageSendQueueEntry0, c)
    /\ m_message_receive_queues' =
           RB_Reset(m_message_receive_queues, message_receive_queue_size, MessageReceiveQueueEntry0, c)
    /\ m_counters_array' = [m_counters_array EXCEPT ![c] = [sent |-> 0, received |-> 0]]
    /\ m_sent_packets' = RB_Reset(m_sent_packets, message_sent_queue_size, SentPacketEntry0, c)
    /\ UNCHANGED m_sent_packet_message_ids_array
    /\ m_send_blocks' = [m_send_blocks EXCEPT ![c] = SendBlockData0]
    /\ m_receive_blocks' = [m_receive_blocks EXCEPT ![c] = ReceiveBlockReset(@)]
    /\ sends' = [sends EXCEPT ![c] = 0]
    /\ accepted' = [accepted EXCEPT ![c] = << >>]
    /\ delivered' = [delivered EXCEPT ![c] = << >>]
    /\ fragments_fed' = [fragments_fed EXCEPT ![c] = NothingFed]
    /\ last_op' = Op("Reset", c, {})
    /\ UNCHANGED <<now, faultVars>>
    /\ UNCHANGED <<linkVars, in_flight>>

(***************************************************************************)
(* The channel payload as ProcessPacketData reads it, field by field:      *)
(*   <<number_of_messages, first id, relative id fields ..., and for each  *)
(*     message a protocol tag and a message body>>                         *)
(* A relative id field is a record [t, v]: t counts the 0 flags read       *)
(* before the first 1 flag (6: all six flags were 0), v is the integer     *)
(* that follows the flags.                                                 *)
(***************************************************************************)
\* ReadStream::DeserialiseSequenceRelative: the 32-bit relative decoder and
\* the cast of its result to std::uint16_t.
DeserialiseSequenceRelative(previous, f) ==
    IF f.t = 0 THEN U16(previous + 1)
    ELSE IF f.t \in 1 .. 5 THEN U16(previous + f.v)
    ELSE U16(f.v)

\* The field that decodes to `current` after `previous`: the tier is chosen
\* as GetRelativeSequenceEncodingBits accounts for it.
RelativeField(previous, current) ==
    LET b == current + (IF previous >= current THEN SeqMod ELSE 0)
        difference == b - previous
    IN  IF difference = 1 THEN [t |-> 0, v |-> 0]
        ELSE IF difference < 6 THEN [t |-> 1, v |-> difference]
        ELSE IF difference < 22 THEN [t |-> 2, v |-> difference]
        ELSE IF difference < 278 THEN [t |-> 3, v |-> difference]
        ELSE IF difference < 4374 THEN [t |-> 4, v |-> difference]
        ELSE IF difference < 69910 THEN [t |-> 5, v |-> difference]
        ELSE [t |-> 6, v |-> b]

\* The payload that carries the message ids `ids`; the message under id m
\* has protocol ProtocolOf(m) and body BodyOf(m).
WireStream(ids) ==
    <<Len(ids), ids[1]>>
    \o [i \in 1 .. (Len(ids) - 1) |-> RelativeField(ids[i], ids[i + 1])]
    \o [j \in 1 .. (2 * Len(ids)) |->
            IF j % 2 = 1 THEN ProtocolOf(ids[(j + 1) \div 2])
                         ELSE BodyOf(ids[j \div 2])]

\* Ids up to MaxBeyond past a fresh receive window.
WireIds == 0 .. (message_receive_queue_size + MaxBeyond - 1)
IdLists == UNION {[1 .. n -> WireIds] : n \in 1 .. MaxMessagesPerPacket}
Prefixes(s) == {SubSeq(s, 1, k) : k \in 0 .. Len(s)}
\* Every payload the model delivers: the well-formed ones, their truncations,
\* and a header announcing zero messages.
Payloads == (UNION {Prefixes(WireStream(ids)) : ids \in IdLists})
            \cup {<<0>>} \cup {<<0, m>> : m \in WireIds}

\* The ids ProcessPacketData decodes from a payload holding all n id fields
\* (lines 419-433).
RECURSIVE DecodeIds(_, _)
DecodeIds(s, n) ==
    IF n = 1 THEN <<s[2]>>
    ELSE LET prev == DecodeIds(s, n - 1)
         IN  Append(prev, DeserialiseSequenceRelative(prev[n - 1], s[n + 1]))

\* Line 445: the id is older than the receive window.
BelowWindow(message_id, min_message_id) == SequenceLessThan(message_id, min_message_id)

\* A receiver that lets every id through the upper window check.
PastWindow_Never(message_id, max_message_id) == FALSE

\* Line 449: the id is past the receive window.
PastWindow(message_id, max_message_id) == SequenceGreaterThan(message_id, max_message_id)

(***************************************************************************)
(* The per-message loop of ProcessPacketData (lines 435-477).              *)
(* st = [q: receive queue, err, pos: next unread field, crash, oob,        *)
(*       note: the branches taken].                                        *)
(***************************************************************************)
RECURSIVE PPD_Loop(_, _, _, _, _, _, _)
PPD_Loop(st, c, s, ids, i, min_message_id, max_message_id) ==
    IF i > Len(ids) THEN st
    ELSE IF st.pos > Len(s)
    THEN \* DeserialiseInteger(message.message_protocol, ...) fails
         [st EXCEPT !.err = CHANNEL_ERROR_FAILED_TO_SERIALISE, !.note = @ \cup {"truncated"}]
    ELSE
    LET message_id == ids[i]
        afterP     == [st EXCEPT !.pos = @ + 1]
        ins        == RB_Insert(st.q, message_receive_queue_size, c, message_id)
    IN
    IF BelowWindow(message_id, min_message_id)
    THEN PPD_Loop([afterP EXCEPT !.note = @ \cup {"old"}],
                  c, s, ids, i + 1, min_message_id, max_message_id)
    ELSE IF PastWindow(message_id, max_message_id)
    THEN [afterP EXCEPT !.err = CHANNEL_ERROR_DESYNC, !.note = @ \cup {"window"}]
    ELSE IF RB_Find(st.q, message_receive_queue_size, c, message_id)
    THEN PPD_Loop([afterP EXCEPT !.note = @ \cup {"duplicate"}],
                  c, s, ids, i + 1, min_message_id, max_message_id)
    ELSE IF RB_GetAtIndexPresent(st.q, c, RB_GetIndex(message_receive_queue_size, message_id))
    THEN \* ASSERT_CRASH(!GetAtIndex(...))
         [afterP EXCEPT !.crash = TRUE, !.note = @ \cup {"assert"}]
    ELSE IF ~ins.ok
    THEN [afterP EXCEPT !.err = CHANNEL_ERROR_DESYNC, !.note = @ \cup {"insert failed"}]
    ELSE IF afterP.pos > Len(s)
    THEN \* DeserialiseMessage fails: the entry stays, its message untouched
         [afterP EXCEPT !.q = ins.rb, !.err = CHANNEL_ERROR_FAILED_TO_SERIALISE,
                        !.note = @ \cup {"truncated"}]
    ELSE \* DeserialiseMessage(entry->m_channel_message, packet_data) stores
         \* the body; message_id and message_protocol of the entry are not
         \* assigned anywhere in ProcessPacketData.
         LET old == RB_Data(ins.rb, message_receive_queue_size, c, message_id)
             new == [old EXCEPT !.m_channel_message.body = s[afterP.pos]]
         IN  PPD_Loop([afterP EXCEPT
                         !.q = RB_SetData(ins.rb, message_receive_queue_size, c, message_id, new),
                         !.pos = @ + 1,
                         !.note = @ \cup {"inserted"}],
                      c, s, ids, i + 1, min_message_id, max_message_id)

\* ProcessPacketData(connection_index, packet_data, packet_sequence) run on
\* payload s from queue q, receive id rid and error level err.
PPD_Run(q, rid, err, c, s) ==
    LET st0 == [q |-> q, err |-> err, pos |-> 1, crash |-> FALSE, oob |-> FALSE,
                note |-> {}]
        min_message_id == rid
        max_message_id == U16(rid + message_receive_queue_size - 1)
    IN
    IF err # ERROR_NONE THEN [st0 EXCEPT !.note = {"error"}]
    ELSE IF Len(s) < 2
    THEN \* number_of_messages or message_ids[0] cannot be read
         [st0 EXCEPT !.err = CHANNEL_ERROR_FAILED_TO_SERIALISE, !.note = {"truncated"}]
    ELSE IF s[1] = 0
    THEN \* message_ids has number_of_messages = 0 elements and message_ids[0]
         \* is stored
         [st0 EXCEPT !.oob = TRUE, !.note = {"zero"}]
    ELSE IF Len(s) < s[1] + 1
    THEN [st0 EXCEPT !.err = CHANNEL_ERROR_FAILED_TO_SERIALISE, !.note = {"truncated"}]
    ELSE PPD_Loop([st0 EXCEPT !.pos = s[1] + 2], c, s,
                  DecodeIds(s, s[1]), 1, min_message_id, max_message_id)

PPD_Result(c, s) ==
    PPD_Run(m_message_receive_queues, m_receive_message_ids[c], m_error_level_array[c], c, s)

\* A store outside an allocation is undefined behaviour: the call may abort
\* or return.
ProcessPacketData(c, s) ==
    /\ ~crashed
    /\ \E r \in {PPD_Result(c, s)} :
         /\ last_op' = OpIn("ProcessPacketData", c, r.note, s)
         /\ m_message_receive_queues' = r.q
         /\ m_error_level_array' = [m_error_level_array EXCEPT ![c] = r.err]
         /\ crashed' \in (IF r.oob THEN BOOLEAN ELSE {r.crash})
         /\ oob_write' = (oob_write \/ r.oob)
    /\ UNCHANGED <<sendVars, m_receive_message_ids, m_counters_array, pumpVars,
                   m_receive_blocks, sends, accepted, delivered, fragments_fed>>
    /\ UNCHANGED <<linkVars, in_flight>>

RECURSIVE BitWidth(_)
\* 64 - std::countl_zero(n)
BitWidth(n) == IF n = 0 THEN 0 ELSE 1 + BitWidth(n \div 2)

\* Serialise::BitsRequired(min, max)
BitsRequired(min, max) == IF min >= max THEN 0 ELSE BitWidth(max - min)


(***************************************************************************)
(* The fragment payload, field by field:                                   *)
(*   <<message_id, number_of_fragments, [fragment id], fragmentBytes,      *)
(*     fragment data, [message_protocol, message body]>>                   *)
(* number_of_fragments is on the wire when max_number_of_fragments > 1,    *)
(* the fragment id when number_of_fragments > 1, and the message follows   *)
(* fragment 0.  The fragment id field holds what GetFragmentPacketData     *)
(* wrote with SerialiseInteger(fragment_id, 0, number_of_fragments - 1).   *)
(***************************************************************************)
FragStream(m, nf, fid, fragmentBytes) ==
    <<m>>
    \o (IF MaxFragments > 1 THEN <<nf>> ELSE << >>)
    \o (IF nf > 1 THEN <<fid>> ELSE << >>)
    \o <<fragmentBytes, DataOf(m, fid)>>
    \o (IF fid = 0 THEN <<ProtocolOf(m), BodyOf(m)>> ELSE << >>)

\* The fragment ids a sender writes for a block of nf fragments.
FragmentIdsOnWire(nf) == 0 .. (nf - 1)

\* DeserialiseInteger(fragmentId, 1, number_of_fragments - 1) applied to the
\* field written above: it reads BitsRequired(1, nf - 1) bits, the low bits
\* of the written value, and adds the minimum 1.
ReadFragmentId(nf, written) == 1 + (written % (2 ^ BitsRequired(1, nf - 1)))

\* fragmentBytes of the fragments the model delivers.
FragmentSizes == {1, max_fragment_size}

FragRecords ==
    {r \in [m : 0 .. MaxBeyond, nf : 1 .. MaxFragments, fid : Fragments,
            bytes : FragmentSizes] : r.fid < r.nf}

\* The complete fragment payloads, and the fragment a complete payload carries.
IsFragment(s) == \E r \in FragRecords : s = FragStream(r.m, r.nf, r.fid, r.bytes)
FragmentOf(s) == CHOOSE r \in FragRecords : s = FragStream(r.m, r.nf, r.fid, r.bytes)

\* Every fragment payload the model delivers: the complete ones, and the
\* truncations of a first fragment with and without a fragment id field.
FragPayloads ==
    {FragStream(r.m, r.nf, r.fid, r.bytes) : r \in FragRecords}
    \cup UNION {Prefixes(FragStream(0, nf, 0, 1)) : nf \in {1, MaxFragments}}

\* What Global::GMemory->Allocate returns in a call: every allocation
\* succeeds, the fragment buffer fails, or the block buffer fails.
Allocations == {"ok", "no fragment", "no block"}

\* SetErrorLevel(connection_index, error_level): the stored level is
\* replaced whatever it was.
SetErrorLevel(err, error_level) == error_level

\* A receiver that takes the fragments of every message id.
UnexpectedFragment_Never(q, c, message_id) == FALSE

\* Lines 658-659: expected_message_id is the sequence of the receive queue,
\* one past the newest id ever inserted for the connection.
UnexpectedFragment(q, c, message_id) == message_id # q.m_sequence[c]

\* ProcessPacketFragment(connection_index, packet_data, packet_sequence) run
\* on payload s from receive block rb, queue q and error level err.
PPF_Run(rb, q, err, c, s, mem) ==
    LET hasN   == MaxFragments > 1
        message_id == s[1]
        number_of_fragments == IF hasN THEN s[2] ELSE 1
        pF     == IF hasN THEN 3 ELSE 2
        hasF   == number_of_fragments > 1
        fragmentId == IF hasF THEN ReadFragmentId(number_of_fragments, s[pF]) ELSE 0
        pB     == IF hasF THEN pF + 1 ELSE pF
        fragmentBytes == s[pB]
        pD     == pB + 1
        pP     == pD + 1
        message == [ChannelMessage0 EXCEPT !.message_protocol = s[pP],
                                           !.message_id = message_id,
                                           !.body = s[pP + 1]]
        out(rb1, q1, e, crash, note) ==
            [rb |-> rb1, q |-> q1, err |-> e, crash |-> crash, note |-> {note}]
        failed == out(rb, q, SetErrorLevel(err, CHANNEL_ERROR_FAILED_TO_SERIALISE),
                      FALSE, "truncated")
        started == IF rb.active THEN rb
                   ELSE [rb EXCEPT !.active = TRUE,
                                   !.number_of_fragments = number_of_fragments,
                                   !.number_of_received_fragments = 0,
                                   !.message_id = message_id,
                                   !.block_size = 0,
                                   !.received_fragment = {}]
        stored == [started EXCEPT
                     !.received_fragment = @ \cup {fragmentId},
                     !.block_data[fragmentId] = s[pD],
                     !.message = IF fragmentId = 0 THEN message ELSE @,
                     !.block_size =
                         IF fragmentId = started.number_of_fragments - 1
                         THEN (started.number_of_fragments - 1) * max_fragment_size
                              + fragmentBytes
                         ELSE @]
        counted == [stored EXCEPT !.number_of_received_fragments = @ + 1]
        whole  == [counted.message EXCEPT
                     !.block_size = counted.block_size,
                     !.block = [i \in 1 .. counted.number_of_fragments |->
                                   counted.block_data[i - 1]],
                     !.message_id = message_id]
        ins    == RB_Insert(q, message_receive_queue_size, c, message_id)
        done   == [counted EXCEPT !.active = FALSE,
                                  !.block_data = [f \in Fragments |-> 0],
                                  !.message = ChannelMessage0]
        desync(rb1, note) ==
            out(rb1, q, SetErrorLevel(err, CHANNEL_ERROR_DESYNC), FALSE, note)
    IN
    IF Len(s) < 1 THEN failed
    ELSE IF hasN /\ Len(s) < 2 THEN failed
    ELSE IF hasF /\ Len(s) < pF THEN failed
    ELSE IF Len(s) < pB THEN failed
    ELSE IF mem = "no fragment"
    THEN out(rb, q, SetErrorLevel(err, CHANNEL_ERROR_FAILED_TO_SERIALISE), FALSE,
             "no fragment memory")
    ELSE IF Len(s) < pD THEN failed
    ELSE IF fragmentId = 0 /\ Len(s) < pP + 1 THEN failed
    ELSE IF UnexpectedFragment(q, c, message_id) THEN out(rb, q, err, FALSE, "unexpected")
    ELSE IF ~rb.active /\ number_of_fragments > MaxFragments
    THEN \* ASSERT_CRASH(number_of_fragments <= max_number_of_fragments)
         out(rb, q, err, TRUE, "assert")
    ELSE IF fragmentId >= started.number_of_fragments
    THEN desync(started, "fragment id")
    ELSE IF number_of_fragments # started.number_of_fragments
    THEN desync(started, "fragment count")
    ELSE IF fragmentId \in started.received_fragment
    THEN out(started, q, err, FALSE, "duplicate")
    ELSE IF /\ fragmentId = stored.number_of_fragments - 1
            /\ stored.block_size > max_fragment_size * MaxFragments
    THEN desync(stored, "block size")
    ELSE IF counted.number_of_received_fragments # counted.number_of_fragments
    THEN out(counted, q, err, FALSE, "stored")
    ELSE IF RB_GetAtIndexPresent(q, c, RB_GetIndex(message_receive_queue_size, message_id))
    THEN desync(counted, "slot taken")
    ELSE IF mem = "no block"
    THEN out(counted, q, SetErrorLevel(err, CHANNEL_ERROR_OUT_OF_MEMORY), FALSE,
             "no block memory")
    ELSE IF ~ins.ok
    THEN \* ASSERT_CRASH(entry)
         out(counted, q, err, TRUE, "assert")
    ELSE out(done,
             RB_SetData(ins.rb, message_receive_queue_size, c, message_id,
                        [m_channel_message |-> whole]),
             err, FALSE, "completed")

PPF_Result(c, s, mem) ==
    PPF_Run(m_receive_blocks[c], m_message_receive_queues, m_error_level_array[c],
            c, s, mem)

ProcessPacketFragment(c, s, mem) ==
    /\ ~crashed
    /\ \E r \in {PPF_Result(c, s, mem)} :
         /\ last_op' = OpIn("ProcessPacketFragment", c, r.note, s)
         /\ m_receive_blocks' = [m_receive_blocks EXCEPT ![c] = r.rb]
         /\ m_message_receive_queues' = r.q
         /\ m_error_level_array' = [m_error_level_array EXCEPT ![c] = r.err]
         /\ crashed' = r.crash
    /\ fragments_fed' =
           IF /\ IsFragment(s)
              /\ mem = "ok"
              /\ m_error_level_array[c] = ERROR_NONE
              /\ s[1] = m_receive_message_ids[c]
           THEN [fragments_fed EXCEPT ![c] = Feed(@, FragmentOf(s))]
           ELSE fragments_fed
    /\ UNCHANGED <<sendVars, m_receive_message_ids, m_counters_array, pumpVars,
                   sends, accepted, delivered, oob_write>>
    /\ UNCHANGED <<linkVars, in_flight>>

RecvNext ==
    \/ \E c \in RecvConns : ReceiveMessage(c)
    \/ \E c \in RecvConns : Reset(c)
    \/ \E c \in RecvConns, s \in Payloads : ProcessPacketData(c, s)

SpecRecv == Init /\ [][RecvNext]_vars

FragNext ==
    \/ \E c \in RecvConns : ReceiveMessage(c)
    \/ \E c \in RecvConns : Reset(c)
    \/ \E c \in RecvConns, s \in FragPayloads, mem \in Allocations :
           ProcessPacketFragment(c, s, mem)

SpecFrag == Init /\ [][FragNext]_vars

(***************************************************************************)
(* ResetAll(): every slot starts again.                                    *)
(***************************************************************************)
ResetAll ==
    /\ ~crashed
    /\ m_error_level_array' = [c \in Conns |-> ERROR_NONE]
    /\ m_send_message_ids' = [c \in Conns |-> 0]
    /\ m_receive_message_ids' = [c \in Conns |-> 0]
    /\ m_oldest_unacked_message_ids' = [c \in Conns |-> 0]
    /\ m_message_send_queues' = RB_ResetAll(message_send_queue_size, MessageSendQueueEntry0)
    /\ m_message_receive_queues' = RB_ResetAll(message_receive_queue_size, MessageReceiveQueueEntry0)
    /\ m_counters_array' = [c \in Conns |-> [sent |-> 0, received |-> 0]]
    /\ m_sent_packets' = RB_ResetAll(message_sent_queue_size, SentPacketEntry0)
    /\ UNCHANGED m_sent_packet_message_ids_array
    /\ m_send_blocks' = [c \in Conns |-> SendBlockData0]
    /\ m_receive_blocks' = [c \in Conns |-> ReceiveBlockReset(m_receive_blocks[c])]
    /\ sends' = [c \in Conns |-> 0]
    /\ accepted' = [c \in Conns |-> << >>]
    /\ delivered' = [c \in Conns |-> << >>]
    /\ fragments_fed' = [c \in Conns |-> NothingFed]
    /\ last_op' = Op("ResetAll", 0, {})
    /\ UNCHANGED <<now, faultVars>>
    /\ UNCHANGED <<linkVars, in_flight>>

SendNext ==
    \/ \E c \in SendConns, block_size \in BlockSizes : SendMessage(c, block_size)
    \/ \E c \in SendConns : Reset(c)
    \/ ResetAll

SpecSend == Init /\ [][SendNext]_vars
(***************************************************************************)
(* The send pump: GetPacketData and what it calls.                         *)
(***************************************************************************)
channel_index_bits == BitsRequired(0, NumberOfChannels)
number_of_messages_bits == BitsRequired(0, MaxMessagesPerPacket)
message_type_bits == BitsRequired(0, max_message_type_number)
giveUpBits == message_type_bits + (4 * CHAR_BIT)
message_limit ==
    IF message_send_queue_size < message_receive_queue_size
    THEN message_send_queue_size ELSE message_receive_queue_size

\* A std::uint32_t is held as the int with the same 32 bits, so that
\* subtraction wraps as in the code; < and > on two of them compare the
\* unsigned values.
ULess(x, y) == IF (x < 0) = (y < 0) THEN x < y ELSE y < 0
UGreater(x, y) == ULess(y, x)

GetRelativeSequenceEncodingBits(first_sequence, second_sequence) ==
    LET b == second_sequence + (IF first_sequence >= second_sequence THEN SeqMod ELSE 0)
        difference == b - first_sequence
    IN  IF difference = 1 THEN 1
        ELSE IF difference < 6 THEN 2 + BitsRequired(2, 5)
        ELSE IF difference < 22 THEN 3 + BitsRequired(6, 21)
        ELSE IF difference < 278 THEN 4 + BitsRequired(22, 277)
        ELSE IF difference < 4374 THEN 5 + BitsRequired(278, 4373)
        ELSE IF difference < 69910 THEN 6 + BitsRequired(4374, 69909)
        ELSE 4 * CHAR_BIT

\* The budgets (available_bits) a caller passes.
Budgets == {0, 1, channel_index_bits, LargeBudget}
\* The packet_sequence arguments.
PacketSequences == 0 .. MaxPacketSequence
\* What the allocation in GetFragmentToSend returns.
FragmentAllocations == {"ok", "no fragment"}
\* GetPacketData never assigns messageType before GetFragmentPacketData
\* serialises it: the values the uninitialised int may hold.
MessageTypes == {1, max_message_type_number}

SendingBlockMessage(c) ==
    /\ RB_Find(m_message_send_queues, message_send_queue_size, c,
               m_oldest_unacked_message_ids[c])
    /\ RB_Data(m_message_send_queues, message_send_queue_size, c,
               m_oldest_unacked_message_ids[c]).block

\* GetMessagesToSend: iteration i of the loop of lines 850-893.
\* st = [q, ids, usedBits, giveUpCounter, previousMessageId].
RECURSIVE GMS_Loop(_, _, _, _, _)
GMS_Loop(st, c, oldest, i, available_bits) ==
    IF i >= message_limit THEN st
    ELSE IF available_bits - st.usedBits < giveUpBits THEN st
    ELSE IF st.giveUpCounter > message_send_queue_size THEN st
    ELSE
    LET messageId == U16(oldest + i)
        entry     == RB_Data(st.q, message_send_queue_size, c, messageId)
        messageBits ==
            entry.measuredBits + message_type_bits
            + (IF st.ids = << >> THEN 16
               ELSE GetRelativeSequenceEncodingBits(st.previousMessageId, messageId))
        taken == [st EXCEPT
                    !.usedBits = @ + messageBits,
                    !.ids = Append(@, messageId),
                    !.previousMessageId = messageId,
                    !.q = RB_SetData(st.q, message_send_queue_size, c, messageId,
                                     [entry EXCEPT !.time_last_sent = now])]
    IN
    IF ~RB_Find(st.q, message_send_queue_size, c, messageId)
    THEN GMS_Loop(st, c, oldest, i + 1, available_bits)
    ELSE IF entry.block THEN st
    ELSE IF /\ entry.time_last_sent + message_resend_time_milliseconds <= now
            /\ available_bits >= entry.measuredBits
    THEN IF st.usedBits + messageBits > available_bits
         THEN GMS_Loop([st EXCEPT !.giveUpCounter = @ + 1], c, oldest, i + 1,
                       available_bits)
         ELSE IF Len(taken.ids) = MaxMessagesPerPacket THEN taken
         ELSE GMS_Loop(taken, c, oldest, i + 1, available_bits)
    ELSE IF Len(st.ids) = MaxMessagesPerPacket THEN st
    ELSE GMS_Loop(st, c, oldest, i + 1, available_bits)

\* GetMessagesToSend with every entry of the connection taken for due.
GetMessagesToSendAtOnce(c, available_bits) ==
    GMS_Loop([q |-> [m_message_send_queues EXCEPT
                        !.m_entry_data[c] =
                            [i \in DOMAIN @ |->
                                [@[i] EXCEPT !.time_last_sent =
                                                 -message_resend_time_milliseconds]]],
              ids |-> << >>, usedBits |-> 0,
              giveUpCounter |-> 0, previousMessageId |-> 0],
             c, m_oldest_unacked_message_ids[c], 0, available_bits)

GetMessagesToSend(c, available_bits) ==
    GMS_Loop([q |-> m_message_send_queues, ids |-> << >>, usedBits |-> 0,
              giveUpCounter |-> 0, previousMessageId |-> 0],
             c, m_oldest_unacked_message_ids[c], 0, available_bits)

\* The result of a GetPacketData call that changes nothing and returns 0.
GPD_Nothing(c, note) ==
    [q |-> m_message_send_queues, sp |-> m_sent_packets,
     ids |-> m_sent_packet_message_ids_array, sb |-> m_send_blocks[c],
     ret |-> 0, s |-> << >>, crash |-> FALSE, oob |-> FALSE, ub |-> FALSE,
     note |-> {note}]

\* AddMessagePacketEntry, line 1052: where in m_sent_packet_message_ids_array
\* the ids of packet `sequence` of the connection are kept.
MessageIdsIndex(connection_index, sequence) ==
    (connection_index * MaxMessagesPerPacket)
    + ((sequence % message_sent_queue_size) * MaxMessagesPerPacket)
\* sent_packet->messageIds[i] = message_ids[i], lines 1054-1056.
WriteMessageIds(array, index, message_ids) ==
    [j \in DOMAIN array |->
        IF j >= index /\ j < index + Len(message_ids)
        THEN message_ids[j - index + 1] ELSE array[j]]

\* The regular-message branch (lines 374-389): GetMessagesToSend,
\* GetMessagePacketData and AddMessagePacketEntry.  GetMessagePacketData
\* walks all max_messages_per_packet slots of message_ids, so with fewer
\* ids it reads slots nothing has written (ub).
GPD_Messages(c, available_bits, packet_sequence) ==
    LET r   == GetMessagesToSend(c, available_bits)
        n   == Len(r.ids)
        missing == \E i \in 1 .. n :
                      \/ ~RB_Find(r.q, message_send_queue_size, c, r.ids[i])
                      \/ RB_Data(r.q, message_send_queue_size, c, r.ids[i])
                             .m_channel_message.body = NoBody
        stream == <<n>> \o [i \in 1 .. n |->
                     RB_Data(r.q, message_send_queue_size, c, r.ids[i])
                         .m_channel_message.body]
        ins == RB_Insert(m_sent_packets, message_sent_queue_size, c, packet_sequence)
        sent == [SentPacketEntry0 EXCEPT !.numMessageIds = n,
                                       !.messageIds = MessageIdsIndex(c, packet_sequence),
                                       !.time_sent = now]
        base == GPD_Nothing(c, "messages")
    IN  IF n = 0 THEN [base EXCEPT !.q = r.q, !.note = {"no message due"}]
        ELSE IF missing \/ ~ins.ok
        THEN \* ASSERT_CRASH(entry), ASSERT_CRASH(message_data), ASSERT_CRASH(sent_packet)
             [base EXCEPT !.q = r.q, !.crash = TRUE, !.note = {"assert"}]
        ELSE [base EXCEPT
                !.q = r.q,
                !.sp = RB_SetData(ins.rb, message_sent_queue_size, c, packet_sequence, sent),
                !.ids = WriteMessageIds(m_sent_packet_message_ids_array,
                                        MessageIdsIndex(c, packet_sequence), r.ids),
                !.ret = r.usedBits, !.s = stream,
                !.ub = n < MaxMessagesPerPacket]

\* The block branch (lines 352-371): GetFragmentToSend,
\* GetFragmentPacketData and AddFragmentPacketEntry, whose call is
\* m_sent_packets.Insert(sequence, true): connection slot `sequence`,
\* sequence number 1.
GPD_Fragment(c, available_bits, packet_sequence, mem, message_type) ==
    LET q      == m_message_send_queues
        entry  == RB_Data(q, message_send_queue_size, c, m_oldest_unacked_message_ids[c])
        block_message == entry.m_channel_message
        messageId == block_message.message_id
        blockSize == block_message.block_size
        sb0    == m_send_blocks[c]
        sb1    == IF sb0.active THEN sb0
                  ELSE [sb0 EXCEPT !.active = TRUE,
                                   !.block_size = blockSize,
                                   !.block_message_id = messageId,
                                   !.number_of_fragments = FragmentsOf(blockSize),
                                   !.number_of_acked_fragments = 0,
                                   !.acked_fragment = {},
                                   !.fragment_send_time = [f \in Fragments |-> 0]]
        due    == {i \in Fragments :
                     /\ i < sb1.number_of_fragments
                     /\ i \notin sb1.acked_fragment
                     /\ sb1.fragment_send_time[i] + fragment_resend_time_milliseconds < now}
        fragmentId == CHOOSE i \in due : \A j \in due : i <= j
        fragmentRemainder == blockSize % max_fragment_size
        fragmentBytes ==
            IF fragmentRemainder # 0 /\ fragmentId = sb1.number_of_fragments - 1
            THEN fragmentRemainder ELSE max_fragment_size
        \* std::copy_n(..., block_offset + fragmentId * max_fragment_size
        \*                  + fragmentBytes, fragmentData)
        copied == (fragmentId * max_fragment_size) + fragmentBytes
        sb2    == [sb1 EXCEPT !.fragment_send_time[fragmentId] = now]
        found  == RB_Find(q, message_send_queue_size, c, messageId)
        first  == RB_Data(q, message_send_queue_size, c, messageId)
        data   == IF fragmentId + 1 \in DOMAIN block_message.block
                  THEN block_message.block[fragmentId + 1] ELSE 0
        stream == <<messageId>>
                  \o (IF MaxFragments > 1 THEN <<sb1.number_of_fragments>> ELSE << >>)
                  \o (IF sb1.number_of_fragments > 1 THEN <<fragmentId>> ELSE << >>)
                  \o <<fragmentBytes, data>>
                  \o (IF fragmentId = 0
                      THEN <<message_type, first.m_channel_message.message_protocol,
                             first.m_channel_message.body>>
                      ELSE << >>)
        fragmentBits ==
            message_type_bits + (fragmentBytes * CHAR_BIT)
            + (IF fragmentId = 0 THEN first.measuredBits + message_type_bits ELSE 0)
        ins    == RB_Insert(m_sent_packets, message_sent_queue_size, packet_sequence, 1)
        sent   == [SentPacketEntry0 EXCEPT !.time_sent = now, !.block = TRUE,
                                           !.block_message_id = messageId,
                                           !.block_fragment_id = fragmentId]
        base   == GPD_Nothing(c, "fragment")
    IN  IF ~sb0.active /\ (sb1.number_of_fragments <= 0
                           \/ sb1.number_of_fragments > MaxFragments)
        THEN [base EXCEPT !.sb = sb1, !.crash = TRUE, !.note = {"assert"}]
        ELSE IF due = {} THEN [base EXCEPT !.sb = sb1, !.note = {"no fragment due"}]
        ELSE IF fragmentId = 0 /\ ULess(available_bits, entry.measuredBits + message_type_bits)
        THEN [base EXCEPT !.sb = sb1, !.note = {"message does not fit"}]
        ELSE IF block_message.body = NoBody
        THEN [base EXCEPT !.sb = sb1, !.crash = TRUE, !.note = {"assert"}]
        ELSE IF mem = "no fragment"
        THEN [base EXCEPT !.sb = sb1, !.note = {"no fragment memory"}]
        ELSE IF \/ fragmentId = 0 /\ ~found
                \/ packet_sequence \notin Conns
                \/ ~ins.ok
        THEN [base EXCEPT !.sb = sb2, !.crash = TRUE, !.oob = copied > fragmentBytes,
                          !.note = {"assert"}]
        ELSE [base EXCEPT
                !.sb = sb2,
                !.sp = RB_SetData(ins.rb, message_sent_queue_size, packet_sequence, 1, sent),
                !.ret = fragmentBits, !.s = stream,
                !.oob = copied > fragmentBytes]

GPD_Run(c, available_bits, packet_sequence, mem, message_type) ==
    LET afterIndex == available_bits - channel_index_bits
    IN  IF ~HasMessagesToSend(c) THEN GPD_Nothing(c, "nothing to send")
        ELSE IF UGreater(available_bits, channel_index_bits)
        THEN GPD_Nothing(c, "budget above channel index")
        ELSE IF SendingBlockMessage(c)
        THEN IF ULess(afterIndex, (max_fragment_size * CHAR_BIT) + 1)
             THEN GPD_Nothing(c, "no room for fragment")
             ELSE GPD_Fragment(c, afterIndex - ((max_fragment_size * CHAR_BIT) + 1),
                               packet_sequence, mem, message_type)
        ELSE IF ULess(afterIndex, number_of_messages_bits + 1 + 1)
             THEN GPD_Nothing(c, "no room for messages")
             ELSE GPD_Messages(c, afterIndex - (channel_index_bits
                                                + number_of_messages_bits + 1 + 1),
                               packet_sequence)

\* GetPacketData<number_of_channels, channel_index>(connection_index, stream,
\* packet_sequence, available_bits).  An out-of-bounds copy or a read of an
\* unwritten slot is undefined behaviour: the call may abort or return.
GetPacketData(c, available_bits, packet_sequence, mem, message_type) ==
    /\ ~crashed
    /\ \E r \in {GPD_Run(c, available_bits, packet_sequence, mem, message_type)} :
         /\ last_op' = OpOut("GetPacketData", c, r.note, r.s, r.ret)
         /\ m_message_send_queues' = r.q
         /\ m_sent_packets' = r.sp
         /\ m_sent_packet_message_ids_array' = r.ids
         /\ m_send_blocks' = [m_send_blocks EXCEPT ![c] = r.sb]
         /\ crashed' \in (IF r.oob \/ r.ub THEN BOOLEAN ELSE {r.crash})
         /\ oob_write' = (oob_write \/ r.oob)
    /\ UNCHANGED <<m_error_level_array, m_send_message_ids, m_oldest_unacked_message_ids,
                   recvVars, m_counters_array, now, m_receive_blocks,
                   sends, accepted, delivered, fragments_fed>>
    /\ UNCHANGED <<linkVars, in_flight>>

\* UpdateOldestUnackedMessageID: the id the walk from `oldest` stops at, the
\* first of stop_message_id and the sequences stored in the send queue.
UpdateOldestUnackedMessageID(q, c, oldest) ==
    LET stop_message_id == q.m_sequence[c]
        stops == {stop_message_id}
                 \cup ({q.m_entry_sequence[c][i] : i \in 0 .. (message_send_queue_size - 1)}
                       \ {EMPTY})
    IN  CHOOSE x \in stops : \A y \in stops : U16(x - oldest) <= U16(y - oldest)

\* The loop of ProcessAcknowledgement over the message ids of the packet
\* (lines 491-501).  st = [q, oldest, crash].
RECURSIVE PA_Loop(_, _, _, _)
PA_Loop(st, c, ids, i) ==
    IF i > Len(ids) THEN st
    ELSE
    LET message_id == ids[i]
        entry == RB_Data(st.q, message_send_queue_size, c, message_id)
        q1    == RB_Remove(st.q, message_send_queue_size, c, message_id)
        o1    == UpdateOldestUnackedMessageID(q1, c, st.oldest)
    IN  IF ~RB_Find(st.q, message_send_queue_size, c, message_id)
        THEN PA_Loop(st, c, ids, i + 1)
        ELSE IF \/ entry.m_channel_message.body = NoBody
                \/ entry.m_channel_message.message_id # message_id
                \/ SequenceGreaterThan(o1, q1.m_sequence[c])
        THEN [st EXCEPT !.crash = TRUE]
        ELSE PA_Loop([st EXCEPT !.q = q1, !.oldest = o1], c, ids, i + 1)

\* ProcessAcknowledgement's body with a block test that does not compare
\* send_block.block_message_id with the entry's block_message_id.
PA_RunAnyBlock(c, sequence) ==
    LET sent_packet_entry == RB_Data(m_sent_packets, message_sent_queue_size, c, sequence)
        st0 == [q |-> m_message_send_queues, oldest |-> m_oldest_unacked_message_ids[c],
                sb |-> m_send_blocks[c], crash |-> FALSE, note |-> {}]
        st1 == PA_Loop(st0, c, PacketMessageIds(m_sent_packet_message_ids_array,
                                                sent_packet_entry), 1)
        sb  == m_send_blocks[c]
        messageId  == sent_packet_entry.block_message_id
        fragmentId == sent_packet_entry.block_fragment_id
        sbA == [sb EXCEPT !.acked_fragment = @ \cup {fragmentId},
                          !.number_of_acked_fragments = @ + 1]
        q2  == RB_Remove(st1.q, message_send_queue_size, c, messageId)
        o2  == UpdateOldestUnackedMessageID(q2, c, st1.oldest)
    IN  IF ~RB_Find(m_sent_packets, message_sent_queue_size, c, sequence)
        THEN [st0 EXCEPT !.note = {"unknown"}]
        ELSE IF sent_packet_entry.acked
        THEN [st0 EXCEPT !.crash = TRUE, !.note = {"assert"}]
        ELSE IF st1.crash THEN [st1 EXCEPT !.note = {"assert"}]
        ELSE IF ~(/\ sent_packet_entry.block
                  /\ sb.active)
        THEN [st1 EXCEPT !.note = {"messages"}]
        ELSE IF fragmentId \in sb.acked_fragment
        THEN [st1 EXCEPT !.note = {"fragment again"}]
        ELSE IF sbA.number_of_acked_fragments # sbA.number_of_fragments
        THEN [st1 EXCEPT !.sb = sbA, !.note = {"fragment"}]
        ELSE IF \/ ~RB_Find(st1.q, message_send_queue_size, c, messageId)
                \/ SequenceGreaterThan(o2, q2.m_sequence[c])
        THEN [st1 EXCEPT !.sb = [sbA EXCEPT !.active = FALSE], !.crash = TRUE,
                         !.note = {"assert"}]
        ELSE [st1 EXCEPT !.sb = [sbA EXCEPT !.active = FALSE], !.q = q2, !.oldest = o2,
                         !.note = {"block"}]

PA_Run(c, sequence) ==
    LET sent_packet_entry == RB_Data(m_sent_packets, message_sent_queue_size, c, sequence)
        st0 == [q |-> m_message_send_queues, oldest |-> m_oldest_unacked_message_ids[c],
                sb |-> m_send_blocks[c], crash |-> FALSE, note |-> {}]
        st1 == PA_Loop(st0, c, PacketMessageIds(m_sent_packet_message_ids_array,
                                                sent_packet_entry), 1)
        sb  == m_send_blocks[c]
        messageId  == sent_packet_entry.block_message_id
        fragmentId == sent_packet_entry.block_fragment_id
        sbA == [sb EXCEPT !.acked_fragment = @ \cup {fragmentId},
                          !.number_of_acked_fragments = @ + 1]
        q2  == RB_Remove(st1.q, message_send_queue_size, c, messageId)
        o2  == UpdateOldestUnackedMessageID(q2, c, st1.oldest)
    IN  IF ~RB_Find(m_sent_packets, message_sent_queue_size, c, sequence)
        THEN [st0 EXCEPT !.note = {"unknown"}]
        ELSE IF sent_packet_entry.acked
        THEN [st0 EXCEPT !.crash = TRUE, !.note = {"assert"}]
        ELSE IF st1.crash THEN [st1 EXCEPT !.note = {"assert"}]
        ELSE IF ~(/\ sent_packet_entry.block
                  /\ sb.active
                  /\ sb.block_message_id = messageId)
        THEN [st1 EXCEPT !.note = {"messages"}]
        ELSE IF fragmentId \in sb.acked_fragment
        THEN [st1 EXCEPT !.note = {"fragment again"}]
        ELSE IF sbA.number_of_acked_fragments # sbA.number_of_fragments
        THEN [st1 EXCEPT !.sb = sbA, !.note = {"fragment"}]
        ELSE IF \/ ~RB_Find(st1.q, message_send_queue_size, c, messageId)
                \/ SequenceGreaterThan(o2, q2.m_sequence[c])
        THEN [st1 EXCEPT !.sb = [sbA EXCEPT !.active = FALSE], !.crash = TRUE,
                         !.note = {"assert"}]
        ELSE [st1 EXCEPT !.sb = [sbA EXCEPT !.active = FALSE], !.q = q2, !.oldest = o2,
                         !.note = {"block"}]

\* ProcessAcknowledgement(connection_index, sequence)
ProcessAcknowledgement(c, sequence) ==
    /\ ~crashed
    /\ \E r \in {PA_Run(c, sequence)} :
         /\ last_op' = OpOut("ProcessAcknowledgement", c, r.note, << >>, sequence)
         /\ m_message_send_queues' = r.q
         /\ m_oldest_unacked_message_ids' =
                [m_oldest_unacked_message_ids EXCEPT ![c] = r.oldest]
         /\ m_send_blocks' = [m_send_blocks EXCEPT ![c] = r.sb]
         /\ crashed' = r.crash
    /\ UNCHANGED <<m_error_level_array, m_send_message_ids, recvVars, m_counters_array,
                   m_sent_packets, m_sent_packet_message_ids_array, now, m_receive_blocks,
                   sends, accepted, delivered, oob_write, fragments_fed>>
    /\ UNCHANGED <<linkVars, in_flight>>

\* The clock of the connection manager moves on.
Tick ==
    /\ ~crashed
    /\ now < MaxTicks * TimeStep
    /\ now' = now + TimeStep
    /\ last_op' = Op("Tick", 0, {})
    /\ UNCHANGED <<m_error_level_array, sendVars, recvVars, m_counters_array,
                   m_sent_packets, m_sent_packet_message_ids_array, m_send_blocks,
                   m_receive_blocks, faultVars,
                   sends, accepted, delivered, fragments_fed>>
    /\ UNCHANGED <<linkVars, in_flight>>

PumpNext ==
    \/ \E c \in PumpConns, block_size \in BlockSizes : SendMessage(c, block_size)
    \/ \E c \in PumpConns, available_bits \in Budgets, packet_sequence \in PacketSequences,
          mem \in FragmentAllocations, message_type \in MessageTypes :
           GetPacketData(c, available_bits, packet_sequence, mem, message_type)
    \/ \E c \in PumpConns, sequence \in PacketSequences : ProcessAcknowledgement(c, sequence)
    \/ \E c \in PumpConns : Reset(c)
    \/ Tick

\* Both pumps keep being called with every budget, and time passes.
PumpFairness ==
    /\ WF_vars(Tick)
    /\ \A c \in PumpConns :
         /\ WF_vars(\E sequence \in PacketSequences : ProcessAcknowledgement(c, sequence))
         /\ \A available_bits \in Budgets :
              WF_vars(\E packet_sequence \in PacketSequences,
                         mem \in FragmentAllocations, message_type \in MessageTypes :
                        GetPacketData(c, available_bits, packet_sequence, mem,
                                      message_type))

SpecPump == Init /\ [][PumpNext]_vars /\ PumpFairness

(***************************************************************************)
(* Every connection of the channel sends while one of them is pumped: the  *)
(* send queue m_message_send_queues is one buffer shared by all of them.   *)
(***************************************************************************)
RECURSIVE SendsUpTo(_)
SendsUpTo(n) == IF n = 0 THEN 0 ELSE sends[n - 1] + SendsUpTo(n - 1)

SharedSends == SendsUpTo(MaxConnections)

\* Block sizes and budgets of the shared-queue specification.
ShareBlockSizes == {0, 1}
ShareBudgets == {0, LargeBudget}

ShareNext ==
    \/ \E c \in Conns, block_size \in ShareBlockSizes :
           /\ SharedSends < MaxSharedSends
           /\ SendMessage(c, block_size)
    \/ \E c \in PumpConns, available_bits \in ShareBudgets,
          packet_sequence \in PacketSequences :
           GetPacketData(c, available_bits, packet_sequence, "ok", 1)
    \/ \E c \in PumpConns, sequence \in PacketSequences : ProcessAcknowledgement(c, sequence)
    \/ \E c \in PumpConns : Reset(c)
    \/ Tick

SpecShare == Init /\ [][ShareNext]_vars

(***************************************************************************)
(* The regular-mode payload from writer to reader.  GetMessagePacketData   *)
(* (lines 997-1013) writes, after the channel index and the two flag bits, *)
(* the message count and then the body of the message under every slot of  *)
(* the message_ids array: all max_messages_per_packet slots, of which only *)
(* the first number_of_message_ids were chosen and the others hold         *)
(* whatever the caller's uninitialised array holds.                        *)
(***************************************************************************)
\* Values of a message_ids slot.
TripIds == 0 .. MaxConnections
MessageIdArrays == [1 .. MaxMessagesPerPacket -> TripIds]

GetMessagePacketData(c, message_ids, number_of_message_ids) ==
    LET q == m_message_send_queues
        missing == \E i \in 1 .. MaxMessagesPerPacket :
                      \/ ~RB_Find(q, message_send_queue_size, c, message_ids[i])
                      \/ RB_Data(q, message_send_queue_size, c, message_ids[i])
                             .m_channel_message.body = NoBody
        stream == <<number_of_message_ids>>
                  \o [i \in 1 .. MaxMessagesPerPacket |->
                         RB_Data(q, message_send_queue_size, c, message_ids[i])
                             .m_channel_message.body]
    IN
    /\ ~crashed
    /\ IF missing
       THEN \* ASSERT_CRASH(entry), ASSERT_CRASH(entry->m_channel_message.message_data)
            /\ crashed' = TRUE
            /\ last_op' = Op("GetMessagePacketData", c, {"assert"})
            /\ UNCHANGED in_flight
       ELSE /\ in_flight' =
                   [c |-> c, n |-> number_of_message_ids,
                    message_ids |-> SubSeq(message_ids, 1, number_of_message_ids),
                    messages |-> [i \in 1 .. number_of_message_ids |->
                                     RB_Data(q, message_send_queue_size, c, message_ids[i])
                                         .m_channel_message],
                    s |-> stream]
            /\ last_op' = OpOut("GetMessagePacketData", c, {"written"}, stream, 0)
            /\ UNCHANGED crashed
    /\ UNCHANGED <<m_error_level_array, sendVars, recvVars, m_counters_array, pumpVars,
                   m_receive_blocks, oob_write, sends, accepted, delivered, fragments_fed>>
    /\ UNCHANGED linkVars

\* bit i of the byte or word x
Bit(x, i) == (x \div (2 ^ i)) % 2 = 1

\* DeserialiseSequenceRelative applied to the bits of a 16-bit field x, low
\* bits first: the flag bits select the tier and the bits after them are the
\* difference less the tier's minimum.  Fields keep their boundaries: bits a
\* narrower read leaves over are not carried into the next field.
AsRelativeField(x) ==
    IF Bit(x, 0) THEN [t |-> 0, v |-> 0]
    ELSE IF Bit(x, 1) THEN [t |-> 1, v |-> 2 + ((x \div 4) % 4)]
    ELSE IF Bit(x, 2) THEN [t |-> 2, v |-> 6 + ((x \div 8) % 16)]
    ELSE IF Bit(x, 3) THEN [t |-> 3, v |-> 22 + ((x \div 16) % 256)]
    ELSE IF Bit(x, 4) THEN [t |-> 4, v |-> 278 + ((x \div 32) % 4096)]
    ELSE [t |-> 6, v |-> x \div 32]

\* The written payload as ProcessPacketData's reads take it: the count, the
\* first id in 16 bits, count - 1 relative ids, then protocol and body each.
ReaderFields(s) ==
    [i \in 1 .. Len(s) |-> IF i >= 3 /\ i <= s[1] + 1 THEN AsRelativeField(s[i]) ELSE s[i]]

\* The receiver's ProcessPacketData on the payload in flight.
DeliverMessages(c) ==
    /\ in_flight.n > 0
    /\ in_flight.c = c
    /\ ProcessPacketData(c, ReaderFields(in_flight.s))

TripNext ==
    \/ \E c \in Conns :
           /\ SharedSends < MaxSharedSends
           /\ SendMessage(c, 0)
    \/ \E c \in PumpConns, message_ids \in MessageIdArrays,
          number_of_message_ids \in 1 .. MaxMessagesPerPacket :
           GetMessagePacketData(c, message_ids, number_of_message_ids)
    \/ \E c \in PumpConns : DeliverMessages(c)
    \/ \E c \in PumpConns : ReceiveMessage(c)
    \/ \E c \in PumpConns : Reset(c)

SpecTrip == Init /\ [][TripNext]_vars


(***************************************************************************)
(* The packet transport: rUDPConnetion.  uint32_t ack_bits is the set of   *)
(* its set bit positions, 0 .. 31; on the wire it is four bytes.           *)
(***************************************************************************)
\* (ack_bits >> 8k) & 0xFF
AckByte(ack_bits, k) ==
    LET w[j \in 0 .. 8] ==
            IF j = 0 THEN 0
            ELSE w[j - 1] + (IF (8 * k + j - 1) \in ack_bits THEN 2 ^ (j - 1) ELSE 0)
    IN  w[8]

\* Every position is reported as received.
GenerateAcknowledgementBits_All(rb, N, c) ==
    [ack |-> U16(rb.m_sequence[c] - 1), ack_bits |-> 0 .. (AckBits - 1)]

\* ReliableBuffer::GenerateAcknowledgementBits(connection_index, ack, ack_bits)
GenerateAcknowledgementBits(rb, N, c) ==
    LET ack == U16(rb.m_sequence[c] - 1)
    IN  [ack |-> ack,
         ack_bits |-> {i \in 0 .. (AckBits - 1) : RB_Exists(rb, N, c, U16(ack - i))}]

\* WritePacketHeader with the one-byte difference taken up to 256.
WritePacketHeader_Wide(sequence, ack, ack_bits) ==
    LET sequence_difference == U16(sequence - ack)
        short  == sequence_difference <= 256
        b(k)   == AckByte(ack_bits, k)
        flag(k) == IF b(k) # 255 THEN 2 ^ (k + 1) ELSE 0
        byte(k) == IF b(k) # 255 THEN <<b(k)>> ELSE << >>
        prefix_byte == flag(0) + flag(1) + flag(2) + flag(3) + (IF short THEN 2 ^ 5 ELSE 0)
    IN  <<prefix_byte, sequence % 256, sequence \div 256>>
            \o (IF short THEN <<sequence_difference % 256>> ELSE <<ack % 256, ack \div 256>>)
            \o byte(0) \o byte(1) \o byte(2) \o byte(3)

\* Serialise::WritePacketHeader(packet_data, sequence, ack, ack_bits): the
\* bytes written.
WritePacketHeader(sequence, ack, ack_bits) ==
    LET sequence_difference == U16(sequence - ack)
        short  == sequence_difference <= 255
        b(k)   == AckByte(ack_bits, k)
        flag(k) == IF b(k) # 255 THEN 2 ^ (k + 1) ELSE 0
        byte(k) == IF b(k) # 255 THEN <<b(k)>> ELSE << >>
        prefix_byte == flag(0) + flag(1) + flag(2) + flag(3) + (IF short THEN 2 ^ 5 ELSE 0)
    IN  <<prefix_byte, sequence % 256, sequence \div 256>>
            \o (IF short THEN <<sequence_difference>> ELSE <<ack % 256, ack \div 256>>)
            \o byte(0) \o byte(1) \o byte(2) \o byte(3)

\* Serialise::ReadPacketHeader(packet_data, packet_bytes, sequence, ack,
\* ack_bits).  bytes is the return value, -1 for a refused header.
ReadPacketHeader(p) ==
    LET bad == [bytes |-> -1, sequence |-> 0, ack |-> 0, ack_bits |-> {}]
    IN  IF Len(p) < MIN_RUDP_HEADER_BYTES THEN bad
        ELSE IF Bit(p[1], 0) THEN bad
        ELSE IF ~Bit(p[1], 5) /\ Len(p) < 3 + 2 THEN bad
        ELSE
        LET prefix_byte == p[1]
            sequence == p[2] + (256 * p[3])
            short    == Bit(prefix_byte, 5)
            read     == IF short THEN 4 ELSE 5
            present(k) == Bit(prefix_byte, k + 1)
            expected_bytes == Cardinality({k \in 0 .. 3 : present(k)})
            at(k)    == read + Cardinality({j \in 0 .. k : present(j)})
            byte(k)  == IF present(k) THEN p[at(k)] ELSE 255
        IN  IF Len(p) < read + expected_bytes THEN bad
            ELSE [bytes |-> read + expected_bytes,
                  sequence |-> sequence,
                  ack |-> IF short THEN U16(sequence - p[4]) ELSE p[4] + (256 * p[5]),
                  ack_bits |-> {i \in 0 .. (AckBits - 1) : Bit(byte(i \div 8), i % 8)}]

\* The payload sizes SerialiseTo_rUDPPacket is called with.
PacketBytes == {1, max_packet_size + 1}
PayloadOf(packet_bytes) == [i \in 1 .. packet_bytes |-> 0]
\* The payload sizes that SerialiseTo_rUDPPacket sends as fragments.
FragmentedBytes == (fragment_above + 1) .. max_packet_size
\* The packet_data of a fragmented send: bytes that tell the sequence and
\* the position apart.
PacketData(sequence, packet_bytes) ==
    [i \in 1 .. packet_bytes |-> (16 * (sequence + 1) + i) % 256]

\* (packet_bytes / fragment_size) + ((packet_bytes % fragment_size) != 0 ? 1 : 0)
NumberOfFragments(packet_bytes) ==
    (packet_bytes \div fragment_size) + (IF packet_bytes % fragment_size # 0 THEN 1 ELSE 0)

\* Serialise::WriteFaragmentHeader<fragment_size>(packet_data, &q, end,
\* number_of_fragments, faragment_id, sequence, ack, ack_bits): the datagram
\* written.  data is the payload, q the offset the caller has reached in it.
WriteFaragmentHeader(data, q, number_of_fragments, faragment_id, sequence, ack, ack_bits) ==
    LET bytes_to_copy == IF q + fragment_size > Len(data) THEN Len(data) - q
                         ELSE fragment_size
    IN  <<1, sequence % 256, sequence \div 256, faragment_id % 256,
          (number_of_fragments - 1) % 256>>
            \o (IF faragment_id = 0 THEN WritePacketHeader(sequence, ack, ack_bits)
                ELSE << >>)
            \o SubSeq(data, q + 1, q + bytes_to_copy)

\* Serialise::ReadFragmentHeader<max_number_of_fragments, fragment_size>(
\* packet_data, packet_bytes, ...).  bytes is the return value, -1 for a
\* refused datagram.  The inner ReadPacketHeader is given packet_bytes,
\* FRAGMENT_HEADER_BYTES more than what is left: the bytes past the datagram
\* read as 0 here.
ReadFragmentHeader(p) ==
    LET bad == [bytes |-> -1, fragment_id |-> 0, num_fragments |-> 0, fragment_bytes |-> 0,
                sequence |-> 0, ack |-> 0, ack_bits |-> {}]
    IN  IF Len(p) < FRAGMENT_HEADER_BYTES THEN bad
        ELSE IF p[1] # 1 THEN bad
        ELSE
        LET sequence == p[2] + (256 * p[3])
            fragment_id == p[4]
            num_fragments == p[5] + 1
            h == IF fragment_id = 0
                 THEN ReadPacketHeader(SubSeq(p, FRAGMENT_HEADER_BYTES + 1, Len(p))
                                           \o [i \in 1 .. FRAGMENT_HEADER_BYTES |-> 0])
                 ELSE [bytes |-> 0, sequence |-> sequence, ack |-> 0, ack_bits |-> {}]
            fragment_bytes == Len(p) - h.bytes - FRAGMENT_HEADER_BYTES
        IN  IF num_fragments > max_number_of_fragments THEN bad
            ELSE IF fragment_id >= num_fragments THEN bad
            ELSE IF h.bytes < 0 THEN bad
            ELSE IF h.sequence # sequence THEN bad
            ELSE IF fragment_bytes > fragment_size THEN bad
            ELSE IF fragment_id # num_fragments - 1 /\ fragment_bytes # fragment_size THEN bad
            ELSE [bytes |-> FRAGMENT_HEADER_BYTES, fragment_id |-> fragment_id,
                  num_fragments |-> num_fragments, fragment_bytes |-> fragment_bytes,
                  sequence |-> sequence, ack |-> h.ack, ack_bits |-> h.ack_bits]

(***************************************************************************)
(* SerialiseTo_rUDPPacket(connection_index, packet_data, packet_bytes) on  *)
(* endpoint e; Send_rUDPPacket puts the datagram on the wire to the peer.  *)
(***************************************************************************)
\* The sequences endpoint e has sent on connection c.
SentBy(e, c) == 0 .. (rudp_sequence[e][c] - 1)

\* Sending sequence q leaves behind an unacked packet that the sent buffer,
\* the peer's received buffer or the 32 ack bits can no longer cover.
Outruns(e, c, q) ==
    \E s \in SentBy(e, c) \ marked[e][c] :
        \/ q - s >= sent_packet_buffer_size
        \/ q - s >= received_packets_buffer_size
        \/ q - s >= AckBits

SerialiseTo_rUDPPacket(e, c, packet_bytes) ==
    LET current_sequence == rudp_sequence[e][c]
        g   == GenerateAcknowledgementBits(rudp_received_packets[e],
                                           received_packets_buffer_size, c)
        ins == RB_Insert(rudp_sent_packets[e], sent_packet_buffer_size, c, current_sequence)
        datagram == WritePacketHeader(current_sequence, g.ack, g.ack_bits)
                        \o PayloadOf(packet_bytes)
        regular == packet_bytes <= fragment_above \/ packet_bytes > max_packet_size
        number_of_fragments == NumberOfFragments(packet_bytes)
        data == PacketData(current_sequence, packet_bytes)
        \* for (fragment_id = 0; fragment_id < number_of_fragments; ++fragment_id)
        fragment_datagrams ==
            [fragment_id \in 1 .. number_of_fragments |->
                WriteFaragmentHeader(data, (fragment_id - 1) * fragment_size,
                                     number_of_fragments, fragment_id - 1,
                                     current_sequence, g.ack, g.ack_bits)]
    IN
    /\ ~crashed
    /\ rudp_sequence[e][c] < sent_packet_buffer_size + MaxOverrun
    /\ rudp_sequence[e][c] + rudp_sequence[Peer(e)][c] < MaxLinkPackets
    /\ Len(wire[Peer(e)][c]) + (IF regular THEN 1 ELSE number_of_fragments) <= MaxInFlight
    /\ IF packet_bytes > max_packet_size
       THEN /\ last_op' = Op("SerialiseTo_rUDPPacket", c, {"oversized"})
            /\ UNCHANGED <<rudp_sequence, rudp_sent_packets, wire, crashed, outran,
                           rudp_counters, fragmented>>
       ELSE /\ rudp_sequence' = [rudp_sequence EXCEPT ![e][c] = U16(@ + 1)]
            /\ outran' = [outran EXCEPT ![e][c] = @ \/ Outruns(e, c, current_sequence)]
            /\ IF ~ins.ok
               THEN \* ASSERT_CRASH(sent_packet_data != nullptr)
                    /\ crashed' = TRUE
                    /\ last_op' = Op("SerialiseTo_rUDPPacket", c, {"assert"})
                    /\ UNCHANGED <<rudp_sent_packets, wire, rudp_counters, fragmented>>
               ELSE /\ rudp_sent_packets' =
                           [rudp_sent_packets EXCEPT ![e] =
                               RB_SetData(ins.rb, sent_packet_buffer_size, c,
                                          current_sequence, [acked |-> FALSE])]
                    /\ IF packet_bytes <= fragment_above
                       THEN /\ wire' = [wire EXCEPT ![Peer(e)][c] = Append(@, datagram)]
                            /\ last_op' = Op("SerialiseTo_rUDPPacket", c, {"sent"})
                            /\ UNCHANGED <<crashed, rudp_counters, fragmented>>
                       ELSE IF number_of_fragments > max_number_of_fragments
                       THEN \* ASSERT_CRASH(number_of_fragments <= max_number_of_fragments)
                            /\ crashed' = TRUE
                            /\ last_op' = Op("SerialiseTo_rUDPPacket", c, {"assert"})
                            /\ UNCHANGED <<wire, rudp_counters, fragmented>>
                       ELSE /\ wire' = [wire EXCEPT ![Peer(e)][c] = @ \o fragment_datagrams]
                            /\ rudp_counters' =
                                   [rudp_counters EXCEPT ![e][c].FragmentedPacketsSent =
                                       @ + number_of_fragments]
                            /\ fragmented' =
                                   [fragmented EXCEPT ![e][c] =
                                       Append(@, [sequence |-> current_sequence,
                                                  packet_bytes |-> packet_bytes])]
                            /\ last_op' = Op("SerialiseTo_rUDPPacket", c, {"fragments"})
                            /\ UNCHANGED crashed
    /\ UNCHANGED <<rudp_received_packets, m_acknowledgments, m_number_of_acknowledgements,
                   marked, appended, acceptedBy, reported, skipped,
                   m_fragment_reassembly, fed, handed, gmemory, resets>>
    /\ UNCHANGED <<channelVars, now>>

(***************************************************************************)
(* ReceiveRegularPacket(connection_index, packet_data, packet_bytes).      *)
(***************************************************************************)
\* Every reported sequence is taken as not yet acknowledged.
NotYetAcked_Always(sent_packet_data) == TRUE

\* Every reported sequence is taken as acknowledged before.
NotYetAcked_Never(sent_packet_data) == FALSE

\* !sent_packet_data->acked
NotYetAcked(sent_packet_data) == ~sent_packet_data.acked

RECURSIVE AckLoop(_, _, _, _, _)
\* for (int i = 0; i < 32; ++i): st carries m_sent_packets, the
\* acknowledgement list and its length, what this call appended, what it
\* skipped for a full list, and whether a set bit met an already acked entry.
AckLoop(st, c, ack, ack_bits, i) ==
    IF i = AckBits THEN st
    ELSE
    LET ack_sequence == U16(ack - i)
        found == RB_Find(st.sent, sent_packet_buffer_size, c, ack_sequence)
        d     == RB_Data(st.sent, sent_packet_buffer_size, c, ack_sequence)
    IN  IF i \notin ack_bits \/ ~found
        THEN AckLoop(st, c, ack, ack_bits, i + 1)
        ELSE IF ~NotYetAcked(d)
        THEN AckLoop([st EXCEPT !.note = @ \cup {"repeated"}], c, ack, ack_bits, i + 1)
        ELSE IF ~(st.n < acknowledge_buffer_size)
        THEN AckLoop([st EXCEPT !.note = @ \cup {"list full"},
                                !.skipped = @ \cup {ack_sequence}],
                     c, ack, ack_bits, i + 1)
        ELSE AckLoop([sent |-> RB_SetData(st.sent, sent_packet_buffer_size, c,
                                          ack_sequence, [acked |-> TRUE]),
                      acks |-> [st.acks EXCEPT ![st.n] = ack_sequence],
                      n    |-> st.n + 1,
                      new  |-> Append(st.new, ack_sequence),
                      skipped |-> st.skipped,
                      note |-> st.note \cup {"acked"}],
                     c, ack, ack_bits, i + 1)

\* The handler as a function of the datagram p, the answer of the connection
\* manager's ProcessDeserialised_rUDPPacket, and m_received_packets and
\* m_fragment_reassembly as the caller left them.
ReceiveRegularPacket_On(e, c, p, accept, received0, reassembly0) ==
    LET h   == ReadPacketHeader(p)
        st0 == [sent |-> rudp_sent_packets[e], acks |-> m_acknowledgments[e][c],
                n |-> m_number_of_acknowledgements[e][c], new |-> << >>,
                skipped |-> {}, note |-> {}]
        out(note, received, reassembly, st, got, crash) ==
            [note |-> note, received |-> received, reassembly |-> reassembly,
             st |-> st, got |-> got,
             rep |-> IF got = {} THEN {}
                     ELSE {U16(h.ack - b) : b \in h.ack_bits} \cap SentBy(e, c),
             counters |-> rudp_counters[e][c], fed |-> {}, handed |-> << >>,
             overwritten |-> "null",
             crash |-> crash]
        same(note) == out({note}, received0, reassembly0, st0, {}, FALSE)
    IN  IF h.bytes < 0 THEN same("invalid")
        ELSE IF h.bytes > Len(p)
        THEN \* ASSERT_CRASH(packet_header_bytes <= packet_bytes)
             out({"assert"}, received0, reassembly0, st0, {}, TRUE)
        ELSE IF Len(p) - h.bytes > max_packet_size THEN same("oversized")
        ELSE IF ~RB_TestInsert(received0, received_packets_buffer_size, c, h.sequence)
        THEN \* ++m_counters[... + CounterTypes::StalePackets]; return;
             [same("stale") EXCEPT !.counters.StalePackets = @ + 1]
        ELSE IF ~accept
        THEN out({"processed", "refused"}, received0, reassembly0, st0, {}, FALSE)
        ELSE
        LET ins == RB_Insert(received0, received_packets_buffer_size, c, h.sequence)
            swept == RB_AdvanceSequenceWithCleanup(reassembly0,
                         fragment_reassembly_buffer_size, c, h.sequence)
        IN  IF ~ins.ok
            THEN \* ASSERT_CRASH(received_packet_data != nullptr)
                 out({"processed", "assert"}, received0, swept, st0, {}, TRUE)
            ELSE
            LET st == AckLoop(st0, c, h.ack, h.ack_bits, 0)
            IN  out(st.note \cup {"processed", "accepted"},
                    RB_SetData(ins.rb, received_packets_buffer_size, c, h.sequence,
                               [received |-> TRUE]),
                    swept, st, {h.sequence}, FALSE)

ReceiveRegularPacket_Run(e, c, p, accept) ==
    ReceiveRegularPacket_On(e, c, p, accept, rudp_received_packets[e],
                            m_fragment_reassembly[e])

(***************************************************************************)
(* ReceiveFaragmentedPacket(connection_index, packet_data, packet_bytes).  *)
(***************************************************************************)
\* Every fragment is stored at the front of the buffer, whatever its id.
StoreFragmentData_Front(reassembly_data, sequence, ack, ack_bits, fragment_id, fragment_data) ==
    LET packet_header == WritePacketHeader(sequence, ack, ack_bits)
        packet_header_bytes == IF fragment_id = 0 THEN Len(packet_header)
                               ELSE reassembly_data.packet_header_bytes
        skip  == IF fragment_id = 0 THEN packet_header_bytes ELSE 0
        chunk == SubSeq(fragment_data, skip + 1, Len(fragment_data))
        header_at == MAX_RUDP_HEADER_BYTES - packet_header_bytes
    IN  [reassembly_data EXCEPT
           !.packet_header_bytes = packet_header_bytes,
           !.packet_bytes =
               IF fragment_id = reassembly_data.num_fragments_total - 1
               THEN ((reassembly_data.num_fragments_total - 1) * fragment_size) + Len(chunk)
               ELSE @,
           !.packet_data =
               [i \in 1 .. Len(@) |->
                   IF i > MAX_RUDP_HEADER_BYTES /\ i <= MAX_RUDP_HEADER_BYTES + Len(chunk)
                   THEN chunk[i - MAX_RUDP_HEADER_BYTES]
                   ELSE IF fragment_id = 0 /\ i > header_at /\ i <= MAX_RUDP_HEADER_BYTES
                        THEN packet_header[i - header_at]
                   ELSE @[i]]]

\* StoreFragmentData(reassembly_data, sequence, ack, ack_bits, fragment_id,
\* fragment_size, fragment_data, fragment_bytes): the entry afterwards.
\* fragment_data is the datagram past its fragment header.
StoreFragmentData(reassembly_data, sequence, ack, ack_bits, fragment_id, fragment_data) ==
    LET packet_header == WritePacketHeader(sequence, ack, ack_bits)
        packet_header_bytes == IF fragment_id = 0 THEN Len(packet_header)
                               ELSE reassembly_data.packet_header_bytes
        skip  == IF fragment_id = 0 THEN packet_header_bytes ELSE 0
        chunk == SubSeq(fragment_data, skip + 1, Len(fragment_data))
        header_at == MAX_RUDP_HEADER_BYTES - packet_header_bytes
        chunk_at  == MAX_RUDP_HEADER_BYTES + (fragment_id * fragment_size)
    IN  [reassembly_data EXCEPT
           !.packet_header_bytes = packet_header_bytes,
           !.packet_bytes =
               IF fragment_id = reassembly_data.num_fragments_total - 1
               THEN ((reassembly_data.num_fragments_total - 1) * fragment_size) + Len(chunk)
               ELSE @,
           !.packet_data =
               [i \in 1 .. Len(@) |->
                   IF i > chunk_at /\ i <= chunk_at + Len(chunk) THEN chunk[i - chunk_at]
                   ELSE IF fragment_id = 0 /\ i > header_at /\ i <= MAX_RUDP_HEADER_BYTES
                        THEN packet_header[i - header_at]
                   ELSE @[i]]]

\* The handler as a function of the endpoint's state, the datagram p and the
\* answer of the connection manager to the reassembled packet.  The call
\* that hands the reassembled packet on is written ReliableReceivePacket in
\* the handler; it is taken to be the regular receive path,
\* ReceiveRegularPacket.
ReceiveFaragmentedPacket_Run(e, c, p, accept) ==
    LET fh  == ReadFragmentHeader(p)
        N   == fragment_reassembly_buffer_size
        st0 == [sent |-> rudp_sent_packets[e], acks |-> m_acknowledgments[e][c],
                n |-> m_number_of_acknowledgements[e][c], new |-> << >>,
                skipped |-> {}, note |-> {}]
        found == RB_Find(m_fragment_reassembly[e], N, c, fh.sequence)
        ins   == RB_InsertWithCleanup(m_fragment_reassembly[e], N, c, fh.sequence)
        count(name) == [rudp_counters[e][c] EXCEPT ![name] = @ + 1]
        out(note, received, reassembly, counters) ==
            [note |-> note, received |-> received, reassembly |-> reassembly,
             st |-> st0, got |-> {}, rep |-> {}, counters |-> counters,
             fed |-> IF fh.bytes < 0 THEN {} ELSE {<<fh.sequence, fh.fragment_id>>},
             handed |-> << >>,
             \* what packet_data = Allocate(...) of a new entry overwrites: the
             \* pointer the sweep of InsertWithCleanup left in the slot
             overwritten |-> IF fh.bytes >= 0 /\ ~found /\ ins.ok
                             THEN RB_Data(ins.rb, N, c, fh.sequence).alloc ELSE "null",
             crash |-> FALSE]
    IN  IF fh.bytes < 0
        THEN out({"invalid fragment"}, rudp_received_packets[e], m_fragment_reassembly[e],
                 count("InvalidFragmantedPackets"))
        ELSE IF ~found /\ ~ins.ok
        THEN out({"stale fragment"}, rudp_received_packets[e], m_fragment_reassembly[e],
                 count("InvalidFragmantedPackets"))
        ELSE
        LET received1 == IF found THEN rudp_received_packets[e]
                         ELSE RB_AdvanceSequence(rudp_received_packets[e],
                                                 received_packets_buffer_size, c, fh.sequence)
            \* packet_header_bytes is not among the fields set for a new entry.
            reassembly1 ==
                IF found THEN m_fragment_reassembly[e]
                ELSE RB_SetData(ins.rb, N, c, fh.sequence,
                        [RB_Data(ins.rb, N, c, fh.sequence) EXCEPT
                            !.sequence = fh.sequence, !.ack = 0, !.ack_bits = {},
                            !.num_fragments_received = 0,
                            !.num_fragments_total = fh.num_fragments,
                            !.packet_data =
                                [i \in 1 .. (MAX_RUDP_HEADER_BYTES
                                                + (fh.num_fragments * fragment_size)) |-> Uninit],
                            !.alloc = "live", !.packet_bytes = 0,
                            !.fragment_received = {}])
            d1 == RB_Data(reassembly1, N, c, fh.sequence)
        IN  IF fh.num_fragments # d1.num_fragments_total
            THEN out({"fragment count mismatch"}, received1, reassembly1,
                     count("InvalidFragmantedPackets"))
            ELSE IF fh.fragment_id \in d1.fragment_received
            THEN out({"fragment repeated"}, received1, reassembly1, rudp_counters[e][c])
            ELSE
            LET d2 == StoreFragmentData(
                          [d1 EXCEPT !.num_fragments_received = @ + 1,
                                     !.fragment_received = @ \cup {fh.fragment_id}],
                          fh.sequence, fh.ack, fh.ack_bits, fh.fragment_id,
                          SubSeq(p, fh.bytes + 1, Len(p)))
                reassembly2 == RB_SetData(reassembly1, N, c, fh.sequence, d2)
            IN  IF d2.num_fragments_received # d2.num_fragments_total
                THEN out({"fragment stored"}, received1, reassembly2,
                         count("FragmantedPacketsReceived"))
                ELSE
                LET packet == SubSeq(d2.packet_data,
                                     MAX_RUDP_HEADER_BYTES - d2.packet_header_bytes + 1,
                                     MAX_RUDP_HEADER_BYTES + d2.packet_bytes)
                    r == ReceiveRegularPacket_On(e, c, packet, accept, received1, reassembly2)
                    slot == IF found THEN "null" ELSE RB_Data(ins.rb, N, c, fh.sequence).alloc
                IN  IF r.crash
                    THEN [r EXCEPT !.fed = {<<fh.sequence, fh.fragment_id>>},
                                   !.handed = <<packet>>,
                                   !.overwritten = slot]
                    ELSE [r EXCEPT
                            !.note = @ \cup {"reassembled"},
                            !.reassembly = RB_RemoveWithCleanup(@, N, c, fh.sequence),
                            !.overwritten = slot,
                            !.counters.FragmantedPacketsReceived = @ + 1,
                            !.fed = {<<fh.sequence, fh.fragment_id>>},
                            !.handed = <<packet>>]

(***************************************************************************)
(* Deserialise_rUDPPacket(connection_index, packet_data, packet_bytes) on  *)
(* endpoint e, for the i-th datagram in flight to it.  keep leaves a copy  *)
(* on the wire (duplication); accept is what the connection manager's      *)
(* ProcessDeserialised_rUDPPacket returns.                                 *)
(***************************************************************************)
Deserialise_rUDPPacket(e, c, i, keep, accept) ==
    /\ ~crashed
    /\ i \in 1 .. Len(wire[e][c])
    /\ \E p \in {wire[e][c][i]} :
       \E r \in {IF Len(p) > max_packet_size + MAX_RUDP_HEADER_BYTES + FRAGMENT_HEADER_BYTES
                 THEN [note |-> {"oversized"}, received |-> rudp_received_packets[e],
                       reassembly |-> m_fragment_reassembly[e],
                       st |-> [sent |-> rudp_sent_packets[e],
                               acks |-> m_acknowledgments[e][c],
                               n |-> m_number_of_acknowledgements[e][c],
                               new |-> << >>, skipped |-> {}, note |-> {}],
                       got |-> {}, rep |-> {}, counters |-> rudp_counters[e][c],
                       fed |-> {}, handed |-> << >>,
                       overwritten |-> "null", crash |-> FALSE]
                 ELSE IF ~Bit(p[1], 0)
                 THEN ReceiveRegularPacket_Run(e, c, p, accept)
                 ELSE ReceiveFaragmentedPacket_Run(e, c, p, accept)} :
         /\ r.counters.StalePackets <= MaxStale
         /\ rudp_received_packets' = [rudp_received_packets EXCEPT ![e] = r.received]
         /\ m_fragment_reassembly' = [m_fragment_reassembly EXCEPT ![e] = r.reassembly]
         /\ rudp_counters' = [rudp_counters EXCEPT ![e][c] = r.counters]
         /\ fed' = [fed EXCEPT ![e][c] = @ \cup r.fed]
         /\ handed' = [handed EXCEPT ![e][c] = @ \o r.handed]
         /\ gmemory' = [gmemory EXCEPT ![e][c] =
                            [released_twice |-> \/ @.released_twice
                                                \/ ReleasedTwice(r.reassembly, c)
                                                \/ r.overwritten = "released twice",
                             leaked |-> @.leaked \/ r.overwritten = "live"]]
         /\ rudp_sent_packets' = [rudp_sent_packets EXCEPT ![e] = r.st.sent]
         /\ m_acknowledgments' = [m_acknowledgments EXCEPT ![e][c] = r.st.acks]
         /\ m_number_of_acknowledgements' =
                [m_number_of_acknowledgements EXCEPT ![e][c] = r.st.n]
         /\ marked' = [marked EXCEPT ![e][c] = @ \cup {r.st.new[k] : k \in 1 .. Len(r.st.new)}]
         /\ appended' = [appended EXCEPT ![e][c] = @ \o r.st.new]
         /\ acceptedBy' = [acceptedBy EXCEPT ![e][c] = @ \cup r.got]
         /\ reported' = [reported EXCEPT ![e][c] = @ \cup r.rep]
         /\ skipped' = [skipped EXCEPT ![e][c] = @ \cup r.st.skipped]
         /\ crashed' = r.crash
         /\ last_op' = Op("Deserialise_rUDPPacket", c, r.note)
    /\ wire' = IF keep THEN wire
               ELSE [wire EXCEPT ![e][c] =
                        [k \in 1 .. (Len(@) - 1) |-> IF k < i THEN @[k] ELSE @[k + 1]]]
    /\ UNCHANGED <<rudp_sequence, outran, fragmented, resets>>
    /\ UNCHANGED <<channelVars, now>>

\* GetAcknowledgements(connection_index, number_of_acknowledgements): the
\* first number_of_acknowledgements entries of the span it returns.
GetAcknowledgements(acknowledgments, number_of_acknowledgements) ==
    [i \in 1 .. number_of_acknowledgements |-> acknowledgments[i - 1]]

\* ClearAcknowledgements(connection_index, cleared_acknowledgements), after
\* the caller read the list with GetAcknowledgements.
ClearAcknowledgements(e, c, cleared_acknowledgements) ==
    /\ ~crashed
    /\ cleared_acknowledgements \in 1 .. m_number_of_acknowledgements[e][c]
    /\ m_number_of_acknowledgements' =
           [m_number_of_acknowledgements EXCEPT ![e][c] = @ - cleared_acknowledgements]
    /\ last_op' = Op("ClearAcknowledgements", c, {})
    /\ UNCHANGED <<rudp_sequence, rudp_sent_packets, rudp_received_packets,
                   m_acknowledgments, wire, linkHist, fragVars, crashed>>
    /\ UNCHANGED <<channelVars, now>>

\* The network drops the i-th datagram in flight to endpoint e.
LosePacket(e, c, i) ==
    /\ ~crashed
    /\ i \in 1 .. Len(wire[e][c])
    /\ wire' = [wire EXCEPT ![e][c] =
                   [k \in 1 .. (Len(@) - 1) |-> IF k < i THEN @[k] ELSE @[k + 1]]]
    /\ last_op' = Op("LosePacket", c, {})
    /\ UNCHANGED <<rudp_sequence, rudp_sent_packets, rudp_received_packets,
                   m_acknowledgments, m_number_of_acknowledgements, linkHist, fragVars,
                   crashed>>
    /\ UNCHANGED <<channelVars, now>>

\* A network that loses, duplicates and reorders datagrams, and a connection
\* manager that may refuse a packet.
NetNext ==
    \/ \E e \in Endpoints, c \in LinkConns, packet_bytes \in PacketBytes :
           SerialiseTo_rUDPPacket(e, c, packet_bytes)
    \/ \E e \in Endpoints, c \in LinkConns, i \in 1 .. MaxInFlight,
          keep \in BOOLEAN, accept \in BOOLEAN :
           Deserialise_rUDPPacket(e, c, i, keep, accept)
    \/ \E e \in Endpoints, c \in LinkConns, n \in 1 .. acknowledge_buffer_size :
           ClearAcknowledgements(e, c, n)
    \/ \E e \in Endpoints, c \in LinkConns, i \in 1 .. MaxInFlight : LosePacket(e, c, i)

SpecNet == Init /\ [][NetNext]_vars

\* A lossless in-order link: datagrams arrive once, in the order sent, and
\* the connection manager accepts every packet.
LinkNext ==
    \/ \E e \in Endpoints, c \in LinkConns, packet_bytes \in PacketBytes :
           SerialiseTo_rUDPPacket(e, c, packet_bytes)
    \/ \E e \in Endpoints, c \in LinkConns : Deserialise_rUDPPacket(e, c, 1, FALSE, TRUE)
    \/ \E e \in Endpoints, c \in LinkConns, n \in 1 .. acknowledge_buffer_size :
           ClearAcknowledgements(e, c, n)

\* Both endpoints keep sending, receiving and draining their lists.
LinkFairness ==
    \A e \in Endpoints, c \in LinkConns :
        /\ WF_vars(SerialiseTo_rUDPPacket(e, c, 1))
        /\ WF_vars(Deserialise_rUDPPacket(e, c, 1, FALSE, TRUE))
        /\ WF_vars(\E n \in 1 .. acknowledge_buffer_size : ClearAcknowledgements(e, c, n))

SpecLink == Init /\ [][LinkNext]_vars /\ LinkFairness

\* A network that reorders datagrams but neither loses nor duplicates them,
\* and a connection manager that accepts every packet; payloads are sent
\* whole or as fragments.
\* Endpoint 0 sends payloads of every size, its peer small ones only.
ReassemblyBytes(e) == IF e = 0 THEN {1} \cup FragmentedBytes ELSE {1}

ReassemblyNext ==
    \/ \E e \in Endpoints, c \in LinkConns :
          \E packet_bytes \in ReassemblyBytes(e) : SerialiseTo_rUDPPacket(e, c, packet_bytes)
    \/ \E e \in Endpoints, c \in LinkConns, i \in 1 .. MaxInFlight :
           Deserialise_rUDPPacket(e, c, i, FALSE, TRUE)

SpecReassembly == Init /\ [][ReassemblyNext]_vars

(***************************************************************************)
(* rUDPConnetion::Reset(connection_index) on endpoint e.  The history of   *)
(* what was sent and acknowledged is left as it is.                        *)
(***************************************************************************)
rUDPConnetion_Reset(e, c) ==
    LET N == fragment_reassembly_buffer_size
        rb == m_fragment_reassembly[e]
        \* if (reassembly_data && reassembly_data->packet_data)
        visited == {i \in 0 .. (N - 1) :
                       RB_GetAtIndexPresent(rb, c, i) /\ rb.m_entry_data[c][i].alloc # "null"}
    IN
    /\ ~crashed
    /\ resets[e][c] < MaxResets
    /\ resets' = [resets EXCEPT ![e][c] = @ + 1]
    /\ gmemory' = [gmemory EXCEPT ![e][c] =
           [released_twice |-> @.released_twice
                                 \/ \E i \in visited : rb.m_entry_data[c][i].alloc # "live",
            \* m_fragment_reassembly.Reset overwrites a pointer that is still live
            leaked |-> @.leaked
                         \/ \E i \in (0 .. (N - 1)) \ visited :
                                rb.m_entry_data[c][i].alloc = "live"]]
    /\ rudp_sequence' = [rudp_sequence EXCEPT ![e][c] = 0]
    /\ m_acknowledgments' =
           [m_acknowledgments EXCEPT ![e][c] = [i \in 0 .. (acknowledge_buffer_size - 1) |-> 0]]
    /\ m_number_of_acknowledgements' = [m_number_of_acknowledgements EXCEPT ![e][c] = 0]
    /\ rudp_counters' = [rudp_counters EXCEPT ![e][c] = Counters0]
    /\ rudp_sent_packets' =
           [rudp_sent_packets EXCEPT ![e] = RB_Reset(@, sent_packet_buffer_size, SentPacketData0, c)]
    /\ rudp_received_packets' =
           [rudp_received_packets EXCEPT ![e] =
               RB_Reset(@, received_packets_buffer_size, ReceivedPacketData0, c)]
    /\ m_fragment_reassembly' =
           [m_fragment_reassembly EXCEPT ![e] = RB_Reset(@, N, FragmentReassemblyData0, c)]
    /\ last_op' = Op("rUDPConnetion::Reset", c, {})
    /\ UNCHANGED <<wire, linkHist, fragmented, fed, handed, crashed>>
    /\ UNCHANGED <<channelVars, now>>

\* A reordering network on which endpoint 0 sends payloads, whole or as
\* fragments, and endpoint 1 receives them and resets the connection at any
\* moment.
ReleaseNext ==
    \/ \E c \in LinkConns, packet_bytes \in ReassemblyBytes(0) :
           SerialiseTo_rUDPPacket(0, c, packet_bytes)
    \/ \E c \in LinkConns, i \in 1 .. MaxInFlight : Deserialise_rUDPPacket(1, c, i, FALSE, TRUE)
    \/ \E c \in LinkConns : rUDPConnetion_Reset(1, c)

SpecRelease == Init /\ [][ReleaseNext]_vars

(***************************************************************************)
(* Properties of the send side.                                            *)
(***************************************************************************)
\* C8: on a connection that alone has sent since the last reset and has had
\* nothing acknowledged, the first message_send_queue_size SendMessage calls
\* are accepted under ids 0 .. message_send_queue_size - 1; a further call
\* sets SEND_QUEUE_FULL and leaves send_id at message_send_queue_size; no
\* call trips an assertion.
C8_SendQueueFull ==
    \A c \in Conns :
        (\A d \in Conns \ {c} : sends[d] = 0) =>
            /\ ~(crashed /\ last_op.op = "SendMessage")
            /\ sends[c] <= message_send_queue_size =>
                   /\ Len(accepted[c]) = sends[c]
                   /\ \A k \in 1 .. Len(accepted[c]) : accepted[c][k].message_id = k - 1
                   /\ m_error_level_array[c] = ERROR_NONE
            /\ sends[c] > message_send_queue_size =>
                   /\ Len(accepted[c]) = message_send_queue_size
                   /\ m_error_level_array[c] = CHANNEL_ERROR_SEND_QUEUE_FULL
                   /\ m_send_message_ids[c] = message_send_queue_size

\* C2: while the pumps keep running, a connection that has accepted
\* messages reaches oldest_unacked_id = send_id, unless an assertion stopped
\* the process.
C2_EventuallyAcked ==
    \A c \in Conns :
        (accepted[c] # << >> /\ ~crashed)
            ~> (m_oldest_unacked_message_ids[c] = m_send_message_ids[c] \/ crashed)

\* C13: after every operation on the channel the oldest unacknowledged
\* message id of each connection equals its send_id or is Less than it in the
\* wrap-aware order of sequence numbers.
C13_OldestNotPastSend ==
    \A c \in Conns :
        \/ m_oldest_unacked_message_ids[c] = m_send_message_ids[c]
        \/ SequenceLessThan(m_oldest_unacked_message_ids[c], m_send_message_ids[c])

\* C14: at most one block message is in flight per connection: whenever the
\* send block of a connection is active its block_message_id is the
\* connection's oldest unacknowledged id, and a fragment that GetPacketData
\* puts on the wire while a block is being sent belongs to that block, which
\* still has unacknowledged fragments.
C14_OneBlockInFlight ==
    [][\A c \in Conns :
         /\ m_send_blocks'[c].active
              => m_send_blocks'[c].block_message_id = m_oldest_unacked_message_ids'[c]
         /\ (/\ last_op'.op = "GetPacketData"
             /\ last_op'.c = c
             /\ last_op'.note = {"fragment"}
             /\ last_op'.s # << >>
             /\ m_send_blocks[c].active)
              => /\ last_op'.s[1] = m_send_blocks[c].block_message_id
                 /\ m_send_blocks[c].number_of_acked_fragments
                        < m_send_blocks[c].number_of_fragments
      ]_vars

\* C11: while the error level of connection c is not None,
\* ProcessAcknowledgement(c, sequence) changes nothing: the send queue,
\* oldest_unacked_id, the send-block state and the sent-packet entries of c
\* stay as they are, and the call does not abort.
C11_AckIsNoOpInError ==
    [][\A c \in Conns :
         (/\ m_error_level_array[c] # ERROR_NONE
          /\ last_op'.op = "ProcessAcknowledgement"
          /\ last_op'.c = c)
         => /\ m_message_send_queues' = m_message_send_queues
            /\ m_oldest_unacked_message_ids'[c] = m_oldest_unacked_message_ids[c]
            /\ m_send_blocks'[c] = m_send_blocks[c]
            /\ m_sent_packets' = m_sent_packets
            /\ crashed' = crashed
      ]_vars

(***************************************************************************)
(* Properties of the receive side.                                         *)
(***************************************************************************)
\* The complete payloads of a conforming peer.
FullPayloads == {WireStream(ids) : ids \in IdLists}

\* The step is a ProcessPacketData call on connection c.
IsProcessPacketData(c) ==
    last_op'.op = "ProcessPacketData" /\ last_op'.c = c

\* C1: the k-th successful ReceiveMessage on a connection returns the message
\* sent k-th, carrying message id k-1, and the call completes (it trips no
\* assertion).
C1_InOrderDelivery ==
    \A c \in RecvConns :
        /\ \A k \in 1 .. Len(delivered[c]) :
               /\ delivered[c][k].message_id = k - 1
               /\ delivered[c][k].body = BodyOf(k - 1)
        /\ ~(crashed /\ last_op.op = "ReceiveMessage" /\ last_op.c = c)

\* C3: a ProcessPacketData call on a payload that carries ids already in the
\* receive queue or Less than receive_id leaves receive_id alone and leaves
\* the queue and the error level exactly as the same payload without those
\* ids would (unchanged when no other id remains).
C3_DuplicateIsFrame ==
    [][\A c \in RecvConns :
         LET s     == last_op'.s
             rid   == m_receive_message_ids[c]
             q     == m_message_receive_queues
             ids   == DecodeIds(s, s[1])
             Stale(id) == \/ SequenceLessThan(id, rid)
                          \/ RB_Exists(q, message_receive_queue_size, c, id)
             Fresh(id) == ~Stale(id)
             kept  == SelectSeq(ids, Fresh)
             want  == IF kept = << >>
                      THEN [q |-> q, err |-> ERROR_NONE]
                      ELSE PPD_Run(q, rid, ERROR_NONE, c, WireStream(kept))
         IN  (/\ IsProcessPacketData(c)
              /\ m_error_level_array[c] = ERROR_NONE
              /\ s \in FullPayloads
              /\ \E i \in 1 .. Len(ids) : Stale(ids[i]))
             => /\ m_receive_message_ids'[c] = rid
                /\ m_message_receive_queues' = want.q
                /\ m_error_level_array'[c] = want.err
      ]_vars

\* C9: when ProcessPacketData, entered with error level None, meets an id
\* Greater than receive_id + message_receive_queue_size - 1 in a complete
\* payload, the connection ends in Desync, the queue holds no entry for that
\* id, and every entry the queue held before the call is still there with
\* the same sequence and the same message.
C9_PastWindowIsDesync ==
    [][\A c \in RecvConns :
         LET s     == last_op'.s
             rid   == m_receive_message_ids[c]
             q     == m_message_receive_queues
             ids   == DecodeIds(s, s[1])
             max_message_id == U16(rid + message_receive_queue_size - 1)
             Past(id) == SequenceGreaterThan(id, max_message_id)
         IN  (/\ IsProcessPacketData(c)
              /\ m_error_level_array[c] = ERROR_NONE
              /\ s \in FullPayloads
              /\ \E i \in 1 .. Len(ids) : Past(ids[i]))
             => /\ m_error_level_array'[c] = CHANNEL_ERROR_DESYNC
                /\ \A i \in 1 .. Len(ids) :
                       Past(ids[i]) =>
                           ~RB_Exists(m_message_receive_queues',
                                      message_receive_queue_size, c, ids[i])
                /\ \A k \in 0 .. (message_receive_queue_size - 1) :
                       q.m_entry_sequence[c][k] # EMPTY =>
                           /\ m_message_receive_queues'.m_entry_sequence[c][k]
                                  = q.m_entry_sequence[c][k]
                           /\ m_message_receive_queues'.m_entry_data[c][k]
                                  = q.m_entry_data[c][k]
      ]_vars

\* A ProcessPacketData call took the past-window branch while the queue held
\* an entry, and the connection is in Desync.
C9_Witness ==
    \E c \in RecvConns :
        /\ last_op.op = "ProcessPacketData" /\ last_op.c = c
        /\ "window" \in last_op.note
        /\ last_op.s \in FullPayloads
        /\ m_error_level_array[c] = CHANNEL_ERROR_DESYNC
        /\ \E k \in 0 .. (message_receive_queue_size - 1) :
               m_message_receive_queues.m_entry_sequence[c][k] # EMPTY

\* C10: no inbound payload makes the receive path store outside a buffer or
\* abort on an assertion.
C10_ReceivePathIsSafe ==
    /\ ~oob_write
    /\ ~(crashed /\ last_op.op = "ProcessPacketData")

\* C7: once the error level of a connection is not None, every channel
\* operation on it other than Reset and ResetAll leaves that error level as
\* it is.
C7_ErrorLatches ==
    [][\A c \in Conns :
         (/\ m_error_level_array[c] # ERROR_NONE
          /\ last_op'.op \notin {"Reset", "ResetAll"})
         => m_error_level_array'[c] = m_error_level_array[c]
      ]_vars

\* C17: the regular-mode payload written for the chosen messages is decoded
\* by ProcessPacketData, on a connection without error, into the same message
\* count and the same message ids, and every chosen id that lies in the
\* receive window and was not yet queued is queued with the protocol tag and
\* the payload of the message that was written.
C17_RegularRoundTrip ==
    [][\A c \in Conns :
         (/\ last_op'.op = "ProcessPacketData"
          /\ last_op'.c = c
          /\ in_flight.n > 0
          /\ in_flight.c = c
          /\ last_op'.s = ReaderFields(in_flight.s)
          /\ m_error_level_array[c] = ERROR_NONE)
         => LET s   == last_op'.s
                n   == in_flight.n
                rid == m_receive_message_ids[c]
                q   == m_message_receive_queues
            IN  /\ s[1] = n
                /\ DecodeIds(s, n) = in_flight.message_ids
                /\ \A i \in 1 .. n :
                     LET id == in_flight.message_ids[i]
                         got == RB_Data(m_message_receive_queues',
                                        message_receive_queue_size, c, id).m_channel_message
                     IN  (/\ ~SequenceLessThan(id, rid)
                          /\ ~SequenceGreaterThan(id, U16(rid + message_receive_queue_size - 1))
                          /\ ~RB_Find(q, message_receive_queue_size, c, id))
                         => /\ RB_Find(m_message_receive_queues',
                                       message_receive_queue_size, c, id)
                            /\ got.message_protocol = in_flight.messages[i].message_protocol
                            /\ got.body = in_flight.messages[i].body
      ]_vars

\* The block whose fragments fragments_fed[c] holds is complete: every
\* fragment id 0 .. nf-1 of one well-formed block at receive_id was processed.
AllFragmentsFed(c) ==
    /\ ~fragments_fed[c].mixed
    /\ fragments_fed[c].nf > 0
    /\ fragments_fed[c].fids = 0 .. (fragments_fed[c].nf - 1)

\* C15: when all num_fragments fragments of the block at the current receive
\* position have been processed, in any order and with or without
\* duplicates, the receive queue holds the block message at receive_id, the
\* entry ReceiveMessage returns, with block_size = (num_fragments - 1) *
\* fragment_size + last_fragment_bytes and the fragments' bytes in
\* fragment-index order.
C15_BlockReassembled ==
    \A c \in Conns :
        LET h == fragments_fed[c]
            m == m_receive_message_ids[c]
            message == RB_Data(m_message_receive_queues, message_receive_queue_size, c, m)
                           .m_channel_message
        IN  (AllFragmentsFed(c) /\ m_error_level_array[c] = ERROR_NONE /\ ~crashed)
            => /\ RB_Find(m_message_receive_queues, message_receive_queue_size, c, m)
               /\ message.message_id = m
               /\ message.block_size = ((h.nf - 1) * max_fragment_size) + h.bytes
               /\ message.block = [i \in 1 .. h.nf |-> DataOf(m, i - 1)]

\* C16 as the specification states it: a block fragment whose message_id
\* differs from receive_id changes neither the receive-block state nor the
\* receive queue.
C16_OffPositionFragmentDropped ==
    [][\A c \in Conns :
         (/\ last_op'.op = "ProcessPacketFragment"
          /\ last_op'.c = c
          /\ Len(last_op'.s) >= 1
          /\ last_op'.s[1] # m_receive_message_ids[c])
         => /\ m_receive_blocks'[c] = m_receive_blocks[c]
            /\ m_message_receive_queues' = m_message_receive_queues
      ]_vars

\* C16: a block fragment whose message_id differs from the sequence of the
\* receive queue, the id one past the newest id inserted into it, is dropped:
\* it changes neither the receive-block state nor the receive queue.
C16_UnexpectedFragmentDropped ==
    [][\A c \in Conns :
         (/\ last_op'.op = "ProcessPacketFragment"
          /\ last_op'.c = c
          /\ Len(last_op'.s) >= 1
          /\ last_op'.s[1] # m_message_receive_queues.m_sequence[c])
         => /\ m_receive_blocks'[c] = m_receive_blocks[c]
            /\ m_message_receive_queues' = m_message_receive_queues
      ]_vars

\* A complete fragment of the message at receive_id was dropped because the
\* receive queue had already moved past that id.
C16_Witness ==
    /\ last_op.op = "ProcessPacketFragment"
    /\ last_op.note = {"unexpected"}
    /\ IsFragment(last_op.s)
    /\ last_op.s[1] = m_receive_message_ids[last_op.c]
    /\ last_op.s[1] # m_message_receive_queues.m_sequence[last_op.c]

\* C12: while the error level of connection c is not None, an inbound
\* channel payload, regular messages or a block fragment, changes neither
\* the receive queue, receive_id, the receive-block state nor the error level
\* of c.
C12_InboundIsNoOpInError ==
    [][\A c \in Conns :
         (/\ m_error_level_array[c] # ERROR_NONE
          /\ last_op'.op \in {"ProcessPacketData", "ProcessPacketFragment"}
          /\ last_op'.c = c)
         => /\ m_message_receive_queues' = m_message_receive_queues
            /\ m_receive_message_ids'[c] = m_receive_message_ids[c]
            /\ m_receive_blocks'[c] = m_receive_blocks[c]
            /\ m_error_level_array'[c] = m_error_level_array[c]
      ]_vars

(***************************************************************************)
(* Properties of the packet transport.                                     *)
(***************************************************************************)
\* A datagram carrying sequence s is in flight to endpoint e.
OnWire(e, c, s) ==
    \E i \in 1 .. Len(wire[e][c]) : ReadPacketHeader(wire[e][c][i]).sequence = s

\* A datagram in flight to endpoint e reports sequence s as received.
AckOnWire(e, c, s) ==
    \E i \in 1 .. Len(wire[e][c]) :
        LET h == ReadPacketHeader(wire[e][c][i])
        IN  \E b \in h.ack_bits : U16(h.ack - b) = s

\* C4: under loss, reordering and duplication, a sent packet is marked acked
\* on an endpoint, and its sequence is appended to the acknowledgement list,
\* only if the peer's receive path accepted a packet with exactly that
\* sequence number.
C4_AckedOnlyIfAccepted ==
    \A e \in Endpoints, c \in LinkConns :
        /\ marked[e][c] \subseteq acceptedBy[Peer(e)][c]
        /\ \A k \in 1 .. Len(appended[e][c]) : appended[e][c][k] \in acceptedBy[Peer(e)][c]
        /\ \A s \in SentBy(e, c) :
             (/\ RB_Exists(rudp_sent_packets[e], sent_packet_buffer_size, c, s)
              /\ RB_Data(rudp_sent_packets[e], sent_packet_buffer_size, c, s).acked)
                 => s \in acceptedBy[Peer(e)][c]

\* An endpoint holds an acked packet that it sent after one the network
\* dropped, and the dropped one is not acked.
C4_Witness ==
    \E e \in Endpoints, c \in LinkConns :
        \E s \in SentBy(e, c), t \in SentBy(e, c) :
            /\ s < t
            /\ s \notin acceptedBy[Peer(e)][c]
            /\ ~OnWire(Peer(e), c, s)
            /\ s \notin marked[e][c]
            /\ t \in marked[e][c]
            /\ RB_Data(rudp_sent_packets[e], sent_packet_buffer_size, c, t).acked

StaysAckable(e, c, s) ==
    /\ RB_Exists(rudp_sent_packets[e], sent_packet_buffer_size, c, s)
    /\ \/ OnWire(Peer(e), c, s)
       \/ RB_Exists(rudp_received_packets[Peer(e)], received_packets_buffer_size, c, s)
       \/ AckOnWire(e, c, s)

C19_ClearReleasesOldest ==
    [][\A e \in Endpoints, c \in LinkConns :
         (/\ last_op'.op = "ClearAcknowledgements"
          /\ m_number_of_acknowledgements'[e][c] # m_number_of_acknowledgements[e][c])
            => LET n == m_number_of_acknowledgements[e][c]
                   k == n - m_number_of_acknowledgements'[e][c]
               IN  GetAcknowledgements(m_acknowledgments'[e][c],
                                       m_number_of_acknowledgements'[e][c])
                       = SubSeq(GetAcknowledgements(m_acknowledgments[e][c], n), k + 1, n)]_vars

\* C20: GenerateAcknowledgementBits returns ack = m_sequence - 1 (mod 65536),
\* and bit i of ack_bits, for i in 0 .. 31, is set exactly when the slot of
\* sequence ack - i (mod 65536) in the received-packets buffer holds that
\* sequence.
C20_AckBitsTellPresence ==
    \A e \in Endpoints, c \in LinkConns :
        LET rb == rudp_received_packets[e]
            g  == GenerateAcknowledgementBits(rb, received_packets_buffer_size, c)
            sequence(i) == (g.ack + SeqMod - i) % SeqMod
        IN  /\ g.ack = (rb.m_sequence[c] + SeqMod - 1) % SeqMod
            /\ g.ack_bits \subseteq 0 .. (AckBits - 1)
            /\ \A i \in 0 .. (AckBits - 1) :
                   i \in g.ack_bits
                       <=> rb.m_entry_sequence[c][sequence(i) % received_packets_buffer_size]
                               = sequence(i)

\* An endpoint holds the newest sequence it expects a successor of, but not
\* the one before it: bit 0 is set and bit 1 is not.
C20_Witness ==
    \E e \in Endpoints, c \in LinkConns :
        LET g == GenerateAcknowledgementBits(rudp_received_packets[e],
                                             received_packets_buffer_size, c)
        IN  /\ g.ack >= 1
            /\ g.ack < HalfSeq
            /\ g.ack \in acceptedBy[e][c]
            /\ (g.ack - 1) \notin acceptedBy[e][c]
            /\ g.ack_bits = {0}

(***************************************************************************)
(* Fragmentation of packets.                                               *)
(***************************************************************************)
\* The fragments <<sequence, fragment_id>> of the k-th payload endpoint e
\* sent as fragments on connection c.
DatagramsOf(e, c, k) ==
    {<<fragmented[e][c][k].sequence, fragment_id>> :
        fragment_id \in 0 .. (NumberOfFragments(fragmented[e][c][k].packet_bytes) - 1)}

\* p is a regular packet of sequence f.sequence whose payload is the
\* f.packet_bytes bytes that were sent.
IsPacketOf(p, f) ==
    LET h == ReadPacketHeader(p)
    IN  /\ h.bytes >= MIN_RUDP_HEADER_BYTES
        /\ h.sequence = f.sequence
        /\ SubSeq(p, h.bytes + 1, Len(p)) = PacketData(f.sequence, f.packet_bytes)

\* What the step that gives endpoint e a fragment of the k-th fragmented
\* payload of its peer for the first time has to do.
RoundTripStep(e, c, k) ==
    /\ rudp_counters'[e][c].FragmantedPacketsReceived =
           rudp_counters[e][c].FragmantedPacketsReceived + 1
    /\ IF DatagramsOf(Peer(e), c, k) \subseteq fed'[e][c]
       THEN /\ Len(handed'[e][c]) = Len(handed[e][c]) + 1
            /\ SubSeq(handed'[e][c], 1, Len(handed[e][c])) = handed[e][c]
            /\ IsPacketOf(handed'[e][c][Len(handed'[e][c])], fragmented[Peer(e)][c][k])
       ELSE handed'[e][c] = handed[e][c]

\* C18 as stated: every fragment datagram of a payload that is delivered
\* grows FragmantedPacketsReceived by one, so ceil(S / fragment_size) in
\* all, and the delivery of the last missing one, and only that, hands the
\* original bytes under the original sequence to the regular receive path.
C18_FragmentsReassembled ==
    [][\A e \in Endpoints, c \in LinkConns :
         \A k \in 1 .. Len(fragmented[Peer(e)][c]) :
            (DatagramsOf(Peer(e), c, k) \cap (fed'[e][c] \ fed[e][c]) # {})
                => RoundTripStep(e, c, k)]_vars

\* The reassembly window of endpoint e still reaches back to the k-th
\* fragmented payload of its peer: no packet that is
\* fragment_reassembly_buffer_size or more sequences newer has moved it on.
InReassemblyWindow(e, c, k) ==
    RB_TestInsert(m_fragment_reassembly[e], fragment_reassembly_buffer_size, c,
                  fragmented[Peer(e)][c][k].sequence)

\* C18, within the reassembly window: while the window still reaches back
\* to the payload, every fragment datagram of it that is delivered grows
\* FragmantedPacketsReceived by one, and the last missing one, and only
\* that, hands the original bytes under the original sequence on.
C18_ReassembledInWindow ==
    [][\A e \in Endpoints, c \in LinkConns :
         \A k \in 1 .. Len(fragmented[Peer(e)][c]) :
            (/\ DatagramsOf(Peer(e), c, k) \cap (fed'[e][c] \ fed[e][c]) # {}
             /\ InReassemblyWindow(e, c, k))
                => RoundTripStep(e, c, k)]_vars

\* A payload of more than one fragment has just been reassembled and handed
\* on, each of its fragments counted.
C18_Witness ==
    \E e \in Endpoints, c \in LinkConns :
        \E k \in 1 .. Len(fragmented[Peer(e)][c]) :
            /\ fragmented[Peer(e)][c][k].packet_bytes > fragment_size
            /\ DatagramsOf(Peer(e), c, k) \subseteq fed[e][c]
            /\ "reassembled" \in last_op.note
            /\ Len(handed[e][c]) > 0
            /\ IsPacketOf(handed[e][c][Len(handed[e][c])], fragmented[Peer(e)][c][k])
            /\ rudp_counters[e][c].FragmantedPacketsReceived
                   >= NumberOfFragments(fragmented[Peer(e)][c][k].packet_bytes)

(***************************************************************************)
(* Stale packets.                                                          *)
(***************************************************************************)
\* This step is Deserialise_rUDPPacket on endpoint e taking the i-th
\* datagram in flight to it.
Delivered(e, c, i) ==
    /\ i \in 1 .. Len(wire[e][c])
    /\ last_op'.op = "Deserialise_rUDPPacket"
    /\ wire'[e][c] = [k \in 1 .. (Len(wire[e][c]) - 1) |->
                         IF k < i THEN wire[e][c][k] ELSE wire[e][c][k + 1]]

\* p is a regular packet whose sequence is Less than
\* next_received - received_packets_buffer_size on endpoint e.
IsStale(e, c, p) ==
    LET h == ReadPacketHeader(p)
        next_received == rudp_received_packets[e].m_sequence[c]
    IN  /\ ~Bit(p[1], 0)
        /\ h.bytes >= MIN_RUDP_HEADER_BYTES
        /\ SequenceLessThan(h.sequence, U16(next_received - received_packets_buffer_size))

\* C21: a regular packet whose sequence is Less than next_received -
\* received_packets_buffer_size increments the connection's StalePackets
\* counter, is not handed to ProcessDeserialised_rUDPPacket, and leaves the
\* received-packets buffer, the sent-packets buffer and the acknowledgement
\* list as they were.
C21_StaleIsRejected ==
    [][\A e \in Endpoints, c \in LinkConns, i \in 1 .. MaxInFlight :
         (Delivered(e, c, i) /\ IsStale(e, c, wire[e][c][i]))
            => /\ rudp_counters'[e][c].StalePackets = rudp_counters[e][c].StalePackets + 1
               /\ "processed" \notin last_op'.note
               /\ UNCHANGED <<rudp_received_packets, rudp_sent_packets, m_acknowledgments,
                              m_number_of_acknowledgements, acceptedBy, marked, appended>>]_vars

\* The packet of sequence next_received - received_packets_buffer_size - 1
\* has just been counted as stale.
C21_Witness ==
    \E e \in Endpoints, c \in LinkConns :
        /\ last_op.op = "Deserialise_rUDPPacket"
        /\ last_op.note = {"stale"}
        /\ rudp_counters[e][c].StalePackets = 1
        /\ rudp_received_packets[e].m_sequence[c] = received_packets_buffer_size + 1
        /\ 0 \notin acceptedBy[e][c]

(***************************************************************************)
(* SequenceGreaterThan and SequenceLessThan on their own.                  *)
(***************************************************************************)
\* The sequence numbers a and the distances d compared: around the ends and
\* the middle of the 16-bit range.
SeqBases ==
    (0 .. SeqSpread) \cup ((HalfSeq - SeqSpread) .. (HalfSeq + SeqSpread))
        \cup ((SeqMod - 1 - SeqSpread) .. (SeqMod - 1))
SeqDistances == (1 .. (1 + SeqSpread)) \cup ((HalfSeq - SeqSpread) .. HalfSeq)

SeqInit ==
    /\ ProgramInit
    /\ BufferInit
    /\ ThreadInit
    /\ UnreliableInit
    /\ call_args \in [op : {"SequenceGreaterThan"}, a : SeqBases, d : SeqDistances]
    /\ call_result = NoCall

\* SequenceGreaterThan(static_cast<uint16_t>(a + d), a) and its mirror.
CompareSequences ==
    /\ call_result = NoCall
    /\ call_result' =
           [op |-> "SequenceGreaterThan",
            greater |-> SequenceGreaterThan(U16(call_args.a + call_args.d), call_args.a),
            less |-> SequenceLessThan(call_args.a, U16(call_args.a + call_args.d))]
    /\ UNCHANGED <<call_args, buffer, retained, threadVars, unreliableVars, programVars>>

SeqNext == CompareSequences

SpecSeq == SeqInit /\ [][SeqNext]_vars

\* C22 as stated: for every a and every d in 1..32768,
\* SequenceGreaterThan((a + d) mod 65536, a) is true.
C22_AheadIsGreater ==
    call_result.op = "SequenceGreaterThan" => call_result.greater

\* C22, as the code has it: SequenceGreaterThan((a + d) mod 65536, a) is
\* true for every d in 1..32767, and for d = 32768 exactly when a + d does
\* not wrap (a < 32768); SequenceLessThan mirrors it.
C22_AheadIsGreaterBelowHalf ==
    call_result.op = "SequenceGreaterThan" =>
        /\ call_result.greater <=> (call_args.d < HalfSeq \/ call_args.a < HalfSeq)
        /\ call_result.less = call_result.greater

\* A sequence that wrapped past 65535 was found greater.
C22_Witness ==
    /\ call_result.op = "SequenceGreaterThan"
    /\ call_args.a = SeqMod - 1
    /\ call_args.d = HalfSeq - 1
    /\ call_result.greater

(***************************************************************************)
(* ReliableBuffer on its own.                                              *)
(***************************************************************************)
\* The sequences of `held` that an insertion or a sequence advance at
\* sequence does not reach: those less than max_element_number behind it.
NotSweptBy(held, sequence) == {s \in held : sequence < s + max_element_number}

\* buffer.Insert(connection_index, sequence)
BufferInsert(c, sequence) ==
    LET ins == RB_Insert(buffer, max_element_number, c, sequence)
    IN  /\ buffer' = ins.rb
        /\ retained' = [retained EXCEPT ![c] =
                          IF ins.ok THEN NotSweptBy(@, sequence) \cup {sequence} ELSE @]
        /\ UNCHANGED <<call_args, call_result, threadVars, unreliableVars, programVars>>

\* buffer.Remove(connection_index, sequence)
BufferRemove(c, sequence) ==
    /\ buffer' = RB_Remove(buffer, max_element_number, c, sequence)
    /\ retained' = [retained EXCEPT ![c] = @ \ {sequence}]
    /\ UNCHANGED <<call_args, call_result, threadVars, unreliableVars, programVars>>

\* buffer.AdvanceSequence(connection_index, sequence)
BufferAdvanceSequence(c, sequence) ==
    /\ buffer' = RB_AdvanceSequence(buffer, max_element_number, c, sequence)
    /\ retained' = [retained EXCEPT ![c] = NotSweptBy(@, sequence)]
    /\ UNCHANGED <<call_args, call_result, threadVars, unreliableVars, programVars>>

\* buffer.Reset(connection_index)
BufferReset(c) ==
    /\ buffer' = RB_Reset(buffer, max_element_number, 0, c)
    /\ retained' = [retained EXCEPT ![c] = {}]
    /\ UNCHANGED <<call_args, call_result, threadVars, unreliableVars, programVars>>

BufferNext ==
    \/ \E c \in UnitConns, sequence \in UnitSequences : BufferInsert(c, sequence)
    \/ \E c \in UnitConns, sequence \in UnitSequences : BufferRemove(c, sequence)
    \/ \E c \in UnitConns, sequence \in UnitSequences : BufferAdvanceSequence(c, sequence)
    \/ \E c \in UnitConns : BufferReset(c)

SpecBuffer == Init /\ [][BufferNext]_vars

\* C23: a sequence whose Insert succeeded is found by Find until Remove is
\* called for that sequence or an insertion or a sequence advance at a
\* sequence max_element_number or more ahead of it sweeps it.
C23_InsertedStaysFound ==
    \A c \in UnitConns : \A s \in retained[c] :
        RB_Find(buffer, max_element_number, c, s)

(***************************************************************************)
(* The buffers of fragment reassembly.                                     *)
(***************************************************************************)
\* C24: every reassembly buffer the transport allocates is released exactly
\* once, on completion, on eviction by a sweep or on Reset: none is released
\* twice, and the pointer to one that is still allocated is never
\* overwritten, neither by a new allocation nor by Reset.
C24_ReleasedExactlyOnce ==
    \A e \in Endpoints, c \in LinkConns :
        /\ ~gmemory[e][c].released_twice
        /\ ~gmemory[e][c].leaked

(***************************************************************************)
(* The acknowledgement list of connection 0 of endpoint 0 under two        *)
(* threads: the receive path appending (ReceiveRegularPacket, the body of  *)
(* the loop over the ack bits) and a consumer calling GetAcknowledgements  *)
(* and ClearAcknowledgements.  Neither takes a lock, so the loads and      *)
(* stores of the two interleave; the two stores of                         *)
(*   m_acknowledgments[... + m_number_of_acknowledgements[c]++] = ack_sequence *)
(* become visible in either order.                                         *)
(***************************************************************************)
\* Everything but the list, the two threads and the histories of the list.
raceFrame ==
    <<m_error_level_array, sendVars, recvVars, m_counters_array, pumpVars, m_receive_blocks,
      faultVars, histVars, in_flight, rudp_sequence, rudp_sent_packets, rudp_received_packets,
      wire, marked, acceptedBy, outran, reported, skipped, fragVars, buffer, retained,
      call_args, call_result, unreliableVars, lockVars, jobVars>>

\* if (... && m_number_of_acknowledgements[connection_index] < acknowledge_buffer_size):
\* the count is loaded; ack_sequence is the next sequence the peer reports
\* (1, 2, ...: the list is filled with 0 at construction).
ReceiveLoad ==
    /\ receive_path.pc = "idle"
    /\ Len(appended[0][0]) < MaxRacedAcks
    /\ m_number_of_acknowledgements[0][0] < acknowledge_buffer_size
    /\ receive_path' = [pc |-> "store", index |-> m_number_of_acknowledgements[0][0],
                        ack_sequence |-> Len(appended[0][0]) + 1,
                        pending |-> {"count", "entry"}]
    /\ UNCHANGED <<m_acknowledgments, m_number_of_acknowledgements, appended, consumer,
                   observed, raceFrame>>

\* The store of the incremented count.
ReceiveStoreCount ==
    /\ receive_path.pc = "store"
    /\ "count" \in receive_path.pending
    /\ m_number_of_acknowledgements' =
           [m_number_of_acknowledgements EXCEPT ![0][0] = receive_path.index + 1]
    /\ receive_path' = [receive_path EXCEPT
                           !.pending = @ \ {"count"},
                           !.pc = IF receive_path.pending = {"count"} THEN "idle" ELSE @]
    /\ appended' = IF receive_path.pending = {"count"}
                   THEN [appended EXCEPT ![0][0] = Append(@, receive_path.ack_sequence)]
                   ELSE appended
    /\ UNCHANGED <<m_acknowledgments, consumer, observed, raceFrame>>

\* The store of ack_sequence into the list.
ReceiveStoreEntry ==
    /\ receive_path.pc = "store"
    /\ "entry" \in receive_path.pending
    /\ m_acknowledgments' =
           [m_acknowledgments EXCEPT ![0][0][receive_path.index] = receive_path.ack_sequence]
    /\ receive_path' = [receive_path EXCEPT
                           !.pending = @ \ {"entry"},
                           !.pc = IF receive_path.pending = {"entry"} THEN "idle" ELSE @]
    /\ appended' = IF receive_path.pending = {"entry"}
                   THEN [appended EXCEPT ![0][0] = Append(@, receive_path.ack_sequence)]
                   ELSE appended
    /\ UNCHANGED <<m_number_of_acknowledgements, consumer, observed, raceFrame>>

\* GetAcknowledgements: number_of_acknowledgements = m_number_of_acknowledgements[c].
ConsumerGet ==
    /\ consumer.pc = "idle"
    /\ Len(observed) < 2 * MaxRacedAcks
    /\ consumer' = [consumer EXCEPT
                       !.pc = "read",
                       !.number_of_acknowledgements = m_number_of_acknowledgements[0][0]]
    /\ UNCHANGED <<m_acknowledgments, m_number_of_acknowledgements, appended, receive_path,
                   observed, raceFrame>>

\* The caller reads the first number_of_acknowledgements entries of the span.
ConsumerRead ==
    /\ consumer.pc = "read"
    /\ observed' = observed \o GetAcknowledgements(m_acknowledgments[0][0],
                                                    consumer.number_of_acknowledgements)
    /\ consumer' = [consumer EXCEPT !.pc = "clear"]
    /\ UNCHANGED <<m_acknowledgments, m_number_of_acknowledgements, appended, receive_path,
                   raceFrame>>

\* ClearAcknowledgements(c, number_of_acknowledgements): the load of
\* m_number_of_acknowledgements[c] -= cleared_acknowledgements.
ConsumerClearLoad ==
    /\ consumer.pc = "clear"
    /\ consumer' = [consumer EXCEPT !.pc = "store",
                                    !.loaded = m_number_of_acknowledgements[0][0]]
    /\ UNCHANGED <<m_acknowledgments, m_number_of_acknowledgements, appended, receive_path,
                   observed, raceFrame>>

\* The store of m_number_of_acknowledgements[c] -= cleared_acknowledgements.
ConsumerClearStore ==
    /\ consumer.pc = "store"
    /\ m_number_of_acknowledgements' =
           [m_number_of_acknowledgements EXCEPT ![0][0] =
               consumer.loaded - consumer.number_of_acknowledgements]
    /\ consumer' = [consumer EXCEPT !.pc = "idle"]
    /\ UNCHANGED <<m_acknowledgments, appended, receive_path, observed, raceFrame>>

AckRaceNext ==
    \/ ReceiveLoad
    \/ ReceiveStoreCount
    \/ ReceiveStoreEntry
    \/ ConsumerGet
    \/ ConsumerRead
    \/ ConsumerClearLoad
    \/ ConsumerClearStore

SpecAckRace == Init /\ [][AckRaceNext]_vars

\* C25: with the receive path and the consumer running concurrently, every
\* acknowledgement appended is observed by the consumer exactly once: what
\* the consumer reads are appended acknowledgements, each at most once, and
\* once both threads are done and the list is empty, all of them.
C25_ObservedExactlyOnce ==
    LET seen == {observed[i] : i \in 1 .. Len(observed)}
        all  == {appended[0][0][i] : i \in 1 .. Len(appended[0][0])}
    IN  /\ \A i, j \in 1 .. Len(observed) : observed[i] = observed[j] => i = j
        /\ receive_path.pc = "idle" => seen \subseteq all
        /\ (/\ receive_path.pc = "idle"
            /\ consumer.pc = "idle"
            /\ m_number_of_acknowledgements[0][0] = 0) => all \subseteq seen

(***************************************************************************)
(* UnreliableUnorderedChannel on its own.  Its queues are atomic queues:   *)
(* Push takes a ticket with m_head.fetch_add(1) and then waits until the   *)
(* element of that ticket is empty; Pop takes a ticket with                *)
(* m_tail.fetch_add(1) and waits until the element is stored.  With queues *)
(* this small SwapMapIndex swaps no bits, so ticket i uses element         *)
(* i % m_size.                                                             *)
(***************************************************************************)
WasSize(q) == IF q.m_head - q.m_tail > 0 THEN q.m_head - q.m_tail ELSE 0
WasEmpty(q) == WasSize(q) = 0
WasFull(q) == WasSize(q) >= UnreliableQueueSize
ElementIndex(ticket) == ticket % UnreliableQueueSize

\* Global::GMemory->Release(message_data); nullptr (0) has nothing to release.
ReleaseData(memory, d) ==
    IF d = 0 THEN memory
    ELSE IF d \in memory.released THEN [memory EXCEPT !.twice = @ \cup {d}]
    ELSE [memory EXCEPT !.released = @ \cup {d}]

\* Everything but the unreliable channel.
unreliableFrame == <<buffer, retained, threadVars, call_args, call_result, programVars>>

\* SendMessage(0, message) up to the call of push, by thread p, with a
\* message whose data was just allotted: dropped at an error level, dropped
\* with SEND_QUEUE_FULL when !CanSendMessage, otherwise on to push.
SendMessage_Enter(p) ==
    LET d == message_memory.allotted + 1
        allotted == [message_memory EXCEPT !.allotted = d]
    IN  /\ producers[p].pc = "idle"
        /\ message_memory.allotted < MaxUnreliableMessages
        /\ IF m_error_level[0] # ERROR_NONE
           THEN /\ message_memory' = ReleaseData(allotted, d)
                /\ UNCHANGED <<m_error_level, producers>>
           ELSE IF WasFull(m_message_send_queue[0])
           THEN /\ m_error_level' = [m_error_level EXCEPT ![0] = CHANNEL_ERROR_SEND_QUEUE_FULL]
                /\ message_memory' = ReleaseData(allotted, d)
                /\ UNCHANGED producers
           ELSE /\ producers' = [producers EXCEPT ![p].pc = "push", ![p].message_data = d]
                /\ message_memory' = allotted
                /\ UNCHANGED m_error_level
        /\ UNCHANGED <<m_message_send_queue, m_message_receive_queue, unreliable_counters,
                       pump_thread, unreliable_op, unreliableFrame>>

\* Push: head = m_head.fetch_add(1).
Push_FetchAdd(p) ==
    /\ producers[p].pc = "push"
    /\ producers' = [producers EXCEPT ![p].pc = "store",
                                      ![p].head = m_message_send_queue[0].m_head]
    /\ m_message_send_queue' = [m_message_send_queue EXCEPT ![0].m_head = @ + 1]
    /\ UNCHANGED <<m_message_receive_queue, m_error_level, unreliable_counters,
                   message_memory, pump_thread, unreliable_op, unreliableFrame>>

\* DoPush: the compare-exchange succeeds once the element is empty; until
\* then the thread spins.
DoPush(p) ==
    LET i == ElementIndex(producers[p].head)
    IN  /\ producers[p].pc = "store"
        /\ ~m_message_send_queue[0].m_elements[i].stored
        /\ m_message_send_queue' =
               [m_message_send_queue EXCEPT ![0].m_elements[i] =
                   [stored |-> TRUE, message_data |-> producers[p].message_data]]
        /\ producers' = [producers EXCEPT ![p].pc = "count"]
        /\ UNCHANGED <<m_message_receive_queue, m_error_level, unreliable_counters,
                       message_memory, pump_thread, unreliable_op, unreliableFrame>>

\* ++m_counters_array[... + CHANNEL_COUNTER_MESSAGES_SENT]: the load.
SendMessage_CountLoad(p) ==
    /\ producers[p].pc = "count"
    /\ producers' = [producers EXCEPT ![p].pc = "counted",
                                      ![p].loaded = unreliable_counters[0].MESSAGES_SENT]
    /\ UNCHANGED <<m_message_send_queue, m_message_receive_queue, m_error_level,
                   unreliable_counters, message_memory, pump_thread, unreliable_op,
                   unreliableFrame>>

\* ++m_counters_array[... + CHANNEL_COUNTER_MESSAGES_SENT]: the store; return.
SendMessage_CountStore(p) ==
    /\ producers[p].pc = "counted"
    /\ unreliable_counters' =
           [unreliable_counters EXCEPT ![0].MESSAGES_SENT = producers[p].loaded + 1]
    /\ producers' = [producers EXCEPT ![p] = [pc |-> "idle", message_data |-> 0,
                                              head |-> 0, loaded |-> 0]]
    /\ UNCHANGED <<m_message_send_queue, m_message_receive_queue, m_error_level,
                   message_memory, pump_thread, unreliable_op, unreliableFrame>>

\* GetPacketData(0, ...) on the pump thread, one turn of its loop:
\* if (was_empty()) break.
GetPacketData_WasEmpty ==
    /\ pump_thread.pc = "idle"
    /\ ~WasEmpty(m_message_send_queue[0])
    /\ pump_thread' = [pump_thread EXCEPT !.pc = "pop"]
    /\ UNCHANGED <<m_message_send_queue, m_message_receive_queue, m_error_level,
                   unreliable_counters, message_memory, producers, unreliable_op,
                   unreliableFrame>>

\* Pop: tail = m_tail.fetch_add(1).
Pop_FetchAdd ==
    /\ pump_thread.pc = "pop"
    /\ pump_thread' = [pc |-> "load", tail |-> m_message_send_queue[0].m_tail]
    /\ m_message_send_queue' = [m_message_send_queue EXCEPT ![0].m_tail = @ + 1]
    /\ UNCHANGED <<m_message_receive_queue, m_error_level, unreliable_counters,
                   message_memory, producers, unreliable_op, unreliableFrame>>

\* DoPop once the element is stored; the message is serialised and its data
\* released.
DoPop ==
    LET i == ElementIndex(pump_thread.tail)
        element == m_message_send_queue[0].m_elements[i]
    IN  /\ pump_thread.pc = "load"
        /\ element.stored
        /\ m_message_send_queue' = [m_message_send_queue EXCEPT ![0].m_elements[i] = NoElement]
        /\ message_memory' = ReleaseData(message_memory, element.message_data)
        /\ pump_thread' = [pc |-> "idle", tail |-> 0]
        /\ UNCHANGED <<m_message_receive_queue, m_error_level, unreliable_counters,
                       producers, unreliable_op, unreliableFrame>>

SendRaceNext ==
    \/ \E p \in Producers : SendMessage_Enter(p)
    \/ \E p \in Producers : Push_FetchAdd(p)
    \/ \E p \in Producers : DoPush(p)
    \/ \E p \in Producers : SendMessage_CountLoad(p)
    \/ \E p \in Producers : SendMessage_CountStore(p)
    \/ GetPacketData_WasEmpty
    \/ Pop_FetchAdd
    \/ DoPop

SpecSendRace == Init /\ [][SendRaceNext]_vars

\* A thread inside Push whose element is still occupied: it spins until the
\* pump has popped that element.
WaitsForSpace(p) ==
    /\ producers[p].pc = "store"
    /\ m_message_send_queue[0].m_elements[ElementIndex(producers[p].head)].stored

\* C26: with several threads in SendMessage on one connection and the pump
\* thread draining it, no SendMessage ever waits for queue space: a call
\* that got past CanSendMessage stores its message at once.
C26_SendNeverWaits == \A p \in Producers : ~WaitsForSpace(p)

(***************************************************************************)
(* UnreliableUnorderedChannel called from one thread: SendMessage,         *)
(* GetPacketData, ProcessPacketData, ReceiveMessage, Reset, ResetAll and   *)
(* the destructor.                                                         *)
(***************************************************************************)
\* push(message) on a queue that is not full, and pop() on one that is not
\* empty, with no other thread in the queue.
QueuePush(q, d) ==
    [q EXCEPT !.m_head = @ + 1,
              !.m_elements[ElementIndex(q.m_head)] = [stored |-> TRUE, message_data |-> d]]
QueuePop(q) ==
    [q EXCEPT !.m_tail = @ + 1, !.m_elements[ElementIndex(q.m_tail)] = NoElement]
Front(q) == q.m_elements[ElementIndex(q.m_tail)].message_data
\* The message data a queue holds.
QueuedData(q) ==
    {q.m_elements[i].message_data : i \in {j \in DOMAIN q.m_elements : q.m_elements[j].stored}} \ {0}

\* for (int i = 0; i < queue.was_size(); ++i) { message = queue.pop();
\*     if (message.message_data != nullptr) Release(message.message_data); }
RECURSIVE DrainLoop(_, _, _)
DrainLoop(q, i, memory) ==
    IF i < WasSize(q)
    THEN DrainLoop(QueuePop(q), i + 1, ReleaseData(memory, Front(q)))
    ELSE [queue |-> q, memory |-> memory]

\* The channel was not destroyed, and another message may be made.
Alive == unreliable_op.op # "~UnreliableUnorderedChannel"
MayAllot == message_memory.allotted < MaxUnreliableMessages
\* The data of a new message: a fresh buffer, or nullptr for an empty message.
NewData(has_data) == IF has_data THEN message_memory.allotted + 1 ELSE 0
Allot == [message_memory EXCEPT !.allotted = @ + 1]
UOp(name, cs, queued) == [op |-> name, cs |-> cs, queued |-> queued]

UnreliableUnorderedChannel_SendMessage(c, has_data) ==
    LET d == NewData(has_data)
    IN  /\ Alive
        /\ MayAllot
        /\ IF m_error_level[c] # ERROR_NONE
           THEN /\ message_memory' = ReleaseData(Allot, d)
                /\ UNCHANGED <<m_error_level, m_message_send_queue, unreliable_counters>>
           ELSE IF WasFull(m_message_send_queue[c])
           THEN /\ m_error_level' = [m_error_level EXCEPT ![c] = CHANNEL_ERROR_SEND_QUEUE_FULL]
                /\ message_memory' = ReleaseData(Allot, d)
                /\ UNCHANGED <<m_message_send_queue, unreliable_counters>>
           ELSE /\ m_message_send_queue' =
                       [m_message_send_queue EXCEPT ![c] = QueuePush(@, d)]
                /\ unreliable_counters' = [unreliable_counters EXCEPT ![c].MESSAGES_SENT = @ + 1]
                /\ message_memory' = Allot
                /\ UNCHANGED m_error_level
        /\ unreliable_op' = UOp("SendMessage", {c}, {})
        /\ UNCHANGED <<m_message_receive_queue, producers, pump_thread, unreliableFrame>>

\* GetPacketData with bits to spare: every queued message is popped,
\* serialised and released.
RECURSIVE PopAll(_, _)
PopAll(q, memory) ==
    IF WasEmpty(q) THEN [queue |-> q, memory |-> memory]
    ELSE PopAll(QueuePop(q), ReleaseData(memory, Front(q)))

UnreliableUnorderedChannel_GetPacketData(c) ==
    LET out == PopAll(m_message_send_queue[c], message_memory)
    IN  /\ Alive
        /\ ~WasEmpty(m_message_send_queue[c])
        /\ m_message_send_queue' = [m_message_send_queue EXCEPT ![c] = out.queue]
        /\ message_memory' = out.memory
        /\ unreliable_op' = UOp("GetPacketData", {c}, {})
        /\ UNCHANGED <<m_message_receive_queue, m_error_level, unreliable_counters,
                       producers, pump_thread, unreliableFrame>>

\* ProcessPacketData with number_of_messages = 1: the message deserialises
\* (ok) or not; it is queued unless the receive queue is full.
UnreliableUnorderedChannel_ProcessPacketData(c, has_data, ok) ==
    LET d == NewData(has_data)
    IN  /\ Alive
        /\ MayAllot
        /\ IF m_error_level[c] # ERROR_NONE
           THEN UNCHANGED <<m_error_level, m_message_receive_queue, message_memory>>
           ELSE IF ~ok
           THEN /\ m_error_level' =
                       [m_error_level EXCEPT ![c] = CHANNEL_ERROR_FAILED_TO_SERIALISE]
                /\ UNCHANGED <<m_message_receive_queue, message_memory>>
           ELSE IF ~WasFull(m_message_receive_queue[c])
           THEN /\ m_message_receive_queue' =
                       [m_message_receive_queue EXCEPT ![c] = QueuePush(@, d)]
                /\ message_memory' = Allot
                /\ UNCHANGED m_error_level
           ELSE /\ message_memory' = ReleaseData(Allot, d)
                /\ UNCHANGED <<m_error_level, m_message_receive_queue>>
        /\ unreliable_op' = UOp("ProcessPacketData", {c}, {})
        /\ UNCHANGED <<m_message_send_queue, unreliable_counters, producers, pump_thread,
                       unreliableFrame>>

\* ReceiveMessage returning true; the caller releases the data it is given.
UnreliableUnorderedChannel_ReceiveMessage(c) ==
    /\ Alive
    /\ m_error_level[c] = ERROR_NONE
    /\ ~WasEmpty(m_message_receive_queue[c])
    /\ unreliable_counters' = [unreliable_counters EXCEPT ![c].MESSAGES_RECEIVED = @ + 1]
    /\ m_message_receive_queue' = [m_message_receive_queue EXCEPT ![c] = QueuePop(@)]
    /\ message_memory' = ReleaseData(message_memory, Front(m_message_receive_queue[c]))
    /\ unreliable_op' = UOp("ReceiveMessage", {c}, {})
    /\ UNCHANGED <<m_message_send_queue, m_error_level, producers, pump_thread,
                   unreliableFrame>>

\* What Reset does to the connections cs: the send queues are drained
\* first, then the receive queues.
RECURSIVE ResetConnections(_, _, _, _)
ResetConnections(cs, sq, rq, memory) ==
    IF cs = {} THEN [send |-> sq, receive |-> rq, memory |-> memory]
    ELSE LET c == CHOOSE x \in cs : \A y \in cs : x <= y
             s == DrainLoop(sq[c], 0, memory)
             r == DrainLoop(rq[c], 0, s.memory)
         IN  ResetConnections(cs \ {c}, [sq EXCEPT ![c] = s.queue],
                              [rq EXCEPT ![c] = r.queue], r.memory)

QueuedOn(cs) ==
    UNION {QueuedData(m_message_send_queue[c]) \cup QueuedData(m_message_receive_queue[c]) :
               c \in cs}

ResetOf(name, cs) ==
    LET out == ResetConnections(cs, m_message_send_queue, m_message_receive_queue,
                                message_memory)
    IN  /\ m_error_level' = [c \in UConns |-> IF c \in cs THEN ERROR_NONE ELSE m_error_level[c]]
        /\ m_message_send_queue' = out.send
        /\ m_message_receive_queue' = out.receive
        /\ message_memory' = out.memory
        /\ unreliable_counters' =
               [c \in UConns |-> IF c \in cs THEN NoCounters ELSE unreliable_counters[c]]
        /\ unreliable_op' = UOp(name, cs, QueuedOn(cs))
        /\ UNCHANGED <<producers, pump_thread, unreliableFrame>>

UnreliableUnorderedChannel_Reset(c) == Alive /\ ResetOf("Reset", {c})

UnreliableUnorderedChannel_ResetAll == Alive /\ ResetOf("ResetAll", UConns)

UnreliableUnorderedChannel_Destructor ==
    Alive /\ ResetOf("~UnreliableUnorderedChannel", UConns)

UnreliableNext ==
    \/ \E c \in UConns, has_data \in BOOLEAN : UnreliableUnorderedChannel_SendMessage(c, has_data)
    \/ \E c \in UConns : UnreliableUnorderedChannel_GetPacketData(c)
    \/ \E c \in UConns, has_data, ok \in BOOLEAN :
           UnreliableUnorderedChannel_ProcessPacketData(c, has_data, ok)
    \/ \E c \in UConns : UnreliableUnorderedChannel_ReceiveMessage(c)
    \/ \E c \in UConns : UnreliableUnorderedChannel_Reset(c)
    \/ UnreliableUnorderedChannel_ResetAll
    \/ UnreliableUnorderedChannel_Destructor

SpecUnreliable == Init /\ [][UnreliableNext]_vars

\* C27: after Reset(c), ResetAll or the destructor, the send queue and the
\* receive queue of every affected connection are empty and the data of
\* every message that was queued there has been released.
C27_ResetEmptiesAndReleases ==
    unreliable_op.op \in {"Reset", "ResetAll", "~UnreliableUnorderedChannel"} =>
        /\ \A c \in unreliable_op.cs :
               /\ WasEmpty(m_message_send_queue[c])
               /\ WasEmpty(m_message_receive_queue[c])
        /\ unreliable_op.queued \subseteq message_memory.released

(***************************************************************************)
(* WritePacketHeader and ReadPacketHeader on their own: a header is        *)
(* written for one (sequence, ack, ack_bits) and read back from a packet   *)
(* that carries payload_bytes more bytes behind it.                        *)
(***************************************************************************)
\* Everything but the call under test and its result.
callFrame == <<call_args, buffer, retained, threadVars, unreliableVars, programVars>>

\* The arguments: sequences around the ends and the middle of the range,
\* acks at distances around the one-byte limit, the half range and the
\* wrap, and ack_bits whose bytes are all set, all clear or mixed.
HeaderDifferences == (0 .. 1) \cup (254 .. 257) \cup {HalfSeq, SeqMod - 1}
AckByteValues == {0, 90, 255}
AckBitsOf(bytes) == {i \in 0 .. (AckBits - 1) : Bit(bytes[i \div 8], i % 8)}
HeaderAckBits == {AckBitsOf(bytes) : bytes \in [0 .. 3 -> AckByteValues]}

HeaderInit ==
    /\ ProgramInit
    /\ BufferInit
    /\ ThreadInit
    /\ UnreliableInit
    /\ \E sequence \in SeqBases, d \in HeaderDifferences, ack_bits \in HeaderAckBits,
          payload_bytes \in 0 .. 1 :
           call_args = [op |-> "WritePacketHeader", sequence |-> sequence,
                        ack |-> U16(sequence - d), ack_bits |-> ack_bits,
                        payload_bytes |-> payload_bytes]
    /\ call_result = NoCall

\* WritePacketHeader(packet_data, sequence, ack, ack_bits); the payload
\* follows the header.
WriteHeader ==
    /\ call_result = NoCall
    /\ call_result' =
           [op |-> "WritePacketHeader",
            header |-> WritePacketHeader(call_args.sequence, call_args.ack, call_args.ack_bits)]
    /\ UNCHANGED callFrame

\* ReadPacketHeader(packet_data, packet_bytes, sequence, ack, ack_bits) on
\* the packet written.
ReadHeader ==
    /\ call_result.op = "WritePacketHeader"
    /\ call_result' =
           [op |-> "ReadPacketHeader",
            header |-> call_result.header,
            read |-> ReadPacketHeader(call_result.header \o PayloadOf(call_args.payload_bytes))]
    /\ UNCHANGED callFrame

HeaderNext == WriteHeader \/ ReadHeader

SpecHeader == HeaderInit /\ [][HeaderNext]_vars

\* C28: ReadPacketHeader applied to the bytes WritePacketHeader produced
\* returns the same sequence, ack and ack_bits and the length written, and
\* that length is between 4 and 9 bytes.
C28_HeaderRoundTrip ==
    call_result.op = "ReadPacketHeader" =>
        /\ call_result.read.sequence = call_args.sequence
        /\ call_result.read.ack = call_args.ack
        /\ call_result.read.ack_bits = call_args.ack_bits
        /\ call_result.read.bytes = Len(call_result.header)
        /\ Len(call_result.header) >= MIN_RUDP_HEADER_BYTES
        /\ Len(call_result.header) <= MAX_RUDP_HEADER_BYTES

\* A header of 9 bytes, whose ack is ahead of its sequence number, read back.
C28_Witness ==
    /\ call_result.op = "ReadPacketHeader"
    /\ call_result.read.bytes = MAX_RUDP_HEADER_BYTES
    /\ call_args.sequence < call_args.ack
    /\ call_result.read.ack = call_args.ack

(***************************************************************************)
(* The bit codec on its own: BitWriter, BitReader and the integer          *)
(* serialisation of WriteStream and ReadStream.  An unsigned integer of    *)
(* the codec is the set of its set bit positions, so that 32-bit and       *)
(* 64-bit values keep their width; the operations below are the unsigned   *)
(* arithmetic of C++ on them.                                              *)
(***************************************************************************)
bits_per_uint32_t == 32
bits_per_uint64_t == 64

\* The value of a small number n, and the number a small value stands for.
BitsOf(n) == {i \in 0 .. 30 : Bit(n, i)}
RECURSIVE NumberOf(_)
NumberOf(A) == IF A = {} THEN 0
               ELSE LET i == CHOOSE x \in A : TRUE IN (2 ^ i) + NumberOf(A \ {i})
\* 2^k - 1 and 2^k
AllOnes(k) == 0 .. (k - 1)
PowerOf2(k) == {k}

\* static_cast to an unsigned type of w bits, value << k, value >> k
Truncate(A, w) == {i \in A : i < w}
ShiftLeft(A, k) == {i + k : i \in A}
ShiftRight(A, k) == {i - k : i \in {j \in A : j >= k}}
\* A + B + (1 if carry) in w bits
AddCarry(A, B, carry, w) ==
    LET c[i \in 0 .. w] ==
            IF i = 0 THEN carry
            ELSE \/ ((i - 1) \in A /\ (i - 1) \in B)
                 \/ ((i - 1) \in A /\ c[i - 1])
                 \/ ((i - 1) \in B /\ c[i - 1])
    IN  {i \in 0 .. (w - 1) : ((i \in A) # (i \in B)) # c[i]}
AddBits(A, B, w) == AddCarry(Truncate(A, w), Truncate(B, w), FALSE, w)
SubBits(A, B, w) == AddCarry(Truncate(A, w), (0 .. (w - 1)) \ B, TRUE, w)
LessBits(A, B) == \E i \in B \ A : \A j \in (A \cup B) : j > i => (j \in A <=> j \in B)
\* bits_per_uint64_t - std::countl_zero(A)
BitWidthOf(A) == IF A = {} THEN 0 ELSE (CHOOSE i \in A : \A j \in A : j <= i) + 1

\* Serialise::BitsRequired(min, max) on 64-bit values.
BitsRequired64(min, max) ==
    IF ~LessBits(min, max) THEN 0 ELSE BitWidthOf(SubBits(max, min, bits_per_uint64_t))

\* ceil(log2(n + 1)): the least b with n + 1 <= 2^b.
CeilLog2Succ(A) == CHOOSE b \in 0 .. bits_per_uint64_t :
                       /\ A \subseteq AllOnes(b)
                       /\ \A b2 \in 0 .. (b - 1) : ~(A \subseteq AllOnes(b2))

\* BitWriter(data, bytes)
NewWriter == [m_scratch |-> {}, m_scratch_bits |-> 0, m_data |-> << >>, m_bits_written |-> 0]

\* BitWriter::WriteBits(value, bits): the whole value is or-ed into the
\* scratch; HostToNetwork leaves a word as it is on a little-endian host.
WriteBits(wr, value, bits) ==
    LET scratch == Truncate(wr.m_scratch \cup ShiftLeft(Truncate(value, bits_per_uint32_t),
                                                        wr.m_scratch_bits),
                            bits_per_uint64_t)
        scratch_bits == wr.m_scratch_bits + bits
    IN  IF scratch_bits >= bits_per_uint32_t
        THEN [m_scratch |-> ShiftRight(scratch, bits_per_uint32_t),
              m_scratch_bits |-> scratch_bits - bits_per_uint32_t,
              m_data |-> Append(wr.m_data, Truncate(scratch, bits_per_uint32_t)),
              m_bits_written |-> wr.m_bits_written + bits]
        ELSE [m_scratch |-> scratch, m_scratch_bits |-> scratch_bits,
              m_data |-> wr.m_data, m_bits_written |-> wr.m_bits_written + bits]

\* BitWriter::FlushBits
FlushBits(wr) ==
    IF wr.m_scratch_bits # 0
    THEN [wr EXCEPT !.m_data = Append(@, Truncate(wr.m_scratch, bits_per_uint32_t)),
                    !.m_scratch = ShiftRight(@, bits_per_uint32_t),
                    !.m_scratch_bits = 0]
    ELSE wr

\* BitReader(data, bytes)
NewReader(data) ==
    [m_bitpacked_data |-> data, m_scratch |-> {}, m_scratch_bits |-> 0,
     m_32_bit_int_index |-> 0, m_bits_read |-> 0, output |-> {}]

\* BitReader::WouldReadPastEnd(bits)
WouldReadPastEnd(rd, bits) ==
    rd.m_bits_read + bits > Len(rd.m_bitpacked_data) * bits_per_uint32_t

\* BitReader::ReadBits(bits); output is what it returns.
ReadBits(rd, bits) ==
    LET refill == rd.m_scratch_bits < bits
        scratch == IF refill
                   THEN rd.m_scratch \cup
                        ShiftLeft(rd.m_bitpacked_data[rd.m_32_bit_int_index + 1],
                                  rd.m_scratch_bits)
                   ELSE rd.m_scratch
        scratch_bits == rd.m_scratch_bits + (IF refill THEN bits_per_uint32_t ELSE 0)
    IN  [rd EXCEPT !.m_bits_read = @ + bits,
                   !.m_scratch = ShiftRight(scratch, bits),
                   !.m_scratch_bits = scratch_bits - bits,
                   !.m_32_bit_int_index = @ + (IF refill THEN 1 ELSE 0),
                   !.output = Truncate(scratch, bits)]

\* static_assert(TMin < TMax) and static_assert(bits <= sizeof(T) * 8) of
\* SerialiseInteger<T, TMin, TMax> and DeserialiseInteger<T, TMin, TMax>,
\* T an unsigned type of w bits.
Instantiates(w, TMin, TMax) == LessBits(TMin, TMax) /\ BitsRequired64(TMin, TMax) <= w

\* WriteStream::SerialiseInteger<T, TMin, TMax>(value)
SerialiseInteger(wr, w, value, TMin, TMax) ==
    LET unsigned_value == SubBits(value, Truncate(TMin, w), w)
    IN  WriteBits(wr, Truncate(unsigned_value, bits_per_uint32_t), BitsRequired64(TMin, TMax))

\* ReadStream::DeserialiseInteger<T, TMin, TMax>(value): ok is its return
\* value, value what it stored.
DeserialiseInteger(rd, w, TMin, TMax) ==
    LET bits == BitsRequired64(TMin, TMax)
        read == ReadBits(rd, bits)
    IN  IF WouldReadPastEnd(rd, bits) THEN [ok |-> FALSE, value |-> {}, reader |-> rd]
        ELSE [ok |-> TRUE, value |-> AddBits(Truncate(read.output, w), TMin, w),
              reader |-> read]

\* The calls checked: T of 16 or 32 bits; ranges that start at 0, inside
\* and at the end of 16 bits and at bit 31, of widths 0, 2^k - 1 and 2^k up
\* to 2^32 - 1; values at both ends of the range, next to them and in the
\* middle; the field at a word boundary, one bit in, or across two words.
IntegerWidths == {16, 32}
IntegerMinima == {BitsOf(0), BitsOf(1), BitsOf(6), BitsOf(278), AllOnes(16), PowerOf2(31)}
RangeWidths ==
    {AllOnes(k) : k \in {0, 1, 2, 3, 8, 12, 16, 31, 32}} \cup {PowerOf2(k) : k \in {1, 4, 16, 31}}
OffsetsIn(d) ==
    {{}, d, ShiftRight(d, 1)} \cup (IF d = {} THEN {} ELSE {BitsOf(1), SubBits(d, BitsOf(1), 64)})
LeadingBits == {0, 1, 31}

IntegerCalls ==
    {[op |-> "SerialiseInteger", w |-> w, min |-> min,
      max |-> AddBits(min, d, bits_per_uint64_t), value |-> AddBits(min, e, bits_per_uint64_t),
      lead |-> lead] :
        w \in IntegerWidths, min \in IntegerMinima, d \in RangeWidths,
        e \in UNION {OffsetsIn(x) : x \in RangeWidths}, lead \in LeadingBits}

IntegerInit ==
    /\ ProgramInit
    /\ BufferInit
    /\ ThreadInit
    /\ UnreliableInit
    /\ call_args \in {a \in IntegerCalls :
                          /\ ~LessBits(a.value, a.min)
                          /\ ~LessBits(a.max, a.value)
                          /\ BitWidthOf(SubBits(a.max, a.min, bits_per_uint64_t))
                                 <= bits_per_uint32_t
                          /\ BitWidthOf(a.value) <= a.w
                          /\ BitsRequired64(a.min, a.max) <= a.w}
    /\ call_result = NoCall

\* The writer after `lead` one bits.
LeadWriter(lead) == IF lead = 0 THEN NewWriter ELSE WriteBits(NewWriter, AllOnes(lead), lead)

\* SerialiseInteger<T, min, max>(value) behind the leading bits, one more
\* one bit and FlushBits -- where the call instantiates.
WriteInteger ==
    LET before == LeadWriter(call_args.lead)
        after == SerialiseInteger(before, call_args.w, call_args.value, call_args.min,
                                  call_args.max)
    IN  /\ call_result = NoCall
        /\ call_result' =
               IF Instantiates(call_args.w, call_args.min, call_args.max)
               THEN [op |-> "SerialiseInteger", instantiates |-> TRUE,
                     data |-> FlushBits(WriteBits(after, BitsOf(1), 1)).m_data,
                     bits_written |-> after.m_bits_written - before.m_bits_written]
               ELSE [op |-> "SerialiseInteger", instantiates |-> FALSE, data |-> << >>,
                     bits_written |-> 0]
        /\ UNCHANGED callFrame

\* DeserialiseInteger<T, min, max>(value) on the words written, behind the
\* leading bits.
ReadInteger ==
    LET start == NewReader(call_result.data)
        before == IF call_args.lead = 0 THEN start ELSE ReadBits(start, call_args.lead)
        out == DeserialiseInteger(before, call_args.w, call_args.min, call_args.max)
    IN  /\ call_result.op = "SerialiseInteger"
        /\ call_result' =
               IF call_result.instantiates
               THEN [op |-> "DeserialiseInteger", instantiates |-> TRUE, ok |-> out.ok,
                     value |-> out.value,
                     bits_written |-> call_result.bits_written,
                     bits_read |-> out.reader.m_bits_read - before.m_bits_read,
                     next_bit |-> ReadBits(out.reader, 1).output]
               ELSE [op |-> "DeserialiseInteger", instantiates |-> FALSE, ok |-> FALSE,
                     value |-> {}, bits_written |-> 0, bits_read |-> 0, next_bit |-> {}]
        /\ UNCHANGED callFrame

IntegerNext == WriteInteger \/ ReadInteger

SpecInteger == IntegerInit /\ [][IntegerNext]_vars

\* What C29 says of a round trip that was made.
RoundTripsIn(bits) ==
    /\ call_result.instantiates
    /\ call_result.ok
    /\ call_result.value = call_args.value
    /\ call_result.bits_written = bits
    /\ call_result.bits_read = bits
    /\ call_result.next_bit = BitsOf(1)

\* C29: for all min <= v <= max with max - min < 2^32, SerialiseInteger
\* (v, min, max) followed by DeserialiseInteger(min, max) yields v, and both
\* consume exactly BitsRequired(min, max) = ceil(log2(max - min + 1)) bits,
\* which is 0 bits when min >= max.
C29_IntegerRoundTrip ==
    call_result.op = "DeserialiseInteger" =>
        /\ RoundTripsIn(BitsRequired64(call_args.min, call_args.max))
        /\ BitsRequired64(call_args.min, call_args.max) =
               CeilLog2Succ(SubBits(call_args.max, call_args.min, bits_per_uint64_t))

(***************************************************************************)
(* The relative encoding of unsigned integers.  The decoder is             *)
(* ReadStream::DeserialiseUnsignedIntegerRelative<T>; the encoder is the   *)
(* tiered prefix-flag table of the specification, its rows marked "u32     *)
(* only" (the row and its flag) left out for a 16-bit T.                   *)
(***************************************************************************)
\* ReadStream::DeserialiseBool(value)
DeserialiseBool(rd) ==
    IF WouldReadPastEnd(rd, 1) THEN [ok |-> FALSE, value |-> FALSE, reader |-> rd]
    ELSE LET read == ReadBits(rd, 1)
         IN  [ok |-> TRUE, value |-> read.output # {}, reader |-> read]

\* The tiers DeserialiseUnsignedIntegerRelative<T> tries in order, each
\* behind one flag: the difference 1, then the ranges of DeserialiseInteger.
RelativeTiers(w) ==
    <<[min |-> 1, max |-> 1], [min |-> 2, max |-> 5], [min |-> 6, max |-> 21],
      [min |-> 22, max |-> 277], [min |-> 278, max |-> 4373]>>
        \o (IF w = bits_per_uint32_t THEN <<[min |-> 4374, max |-> 69909]>> ELSE << >>)

\* The decoder with the flag of the 32-bit tier read for every T.
RECURSIVE DeserialiseUnsignedIntegerRelative_SixFlags(_, _, _, _)
DeserialiseUnsignedIntegerRelative_SixFlags(rd, w, previous, tier) ==
    LET failed == [ok |-> FALSE, current |-> {}, reader |-> rd]
        tiers == RelativeTiers(bits_per_uint32_t)
    IN  IF tier > Len(tiers)
        THEN LET raw == DeserialiseInteger(rd, w, {}, AllOnes(w))
             IN  [ok |-> raw.ok, current |-> raw.value, reader |-> raw.reader]
        ELSE LET flag == DeserialiseBool(rd)
             IN  IF ~flag.ok THEN failed
                 ELSE IF ~flag.value
                 THEN DeserialiseUnsignedIntegerRelative_SixFlags(flag.reader, w, previous,
                                                                  tier + 1)
                 ELSE IF tier = 1
                 THEN [ok |-> TRUE, current |-> AddBits(previous, BitsOf(1), w),
                       reader |-> flag.reader]
                 ELSE LET difference == DeserialiseInteger(flag.reader, w,
                                                           BitsOf(tiers[tier].min),
                                                           BitsOf(tiers[tier].max))
                      IN  [ok |-> difference.ok,
                           current |-> AddBits(previous, difference.value, w),
                           reader |-> difference.reader]

\* ReadStream::DeserialiseUnsignedIntegerRelative<T>(previous, current), T
\* of w bits, from the flag of tier `tier` on: ok is its return value,
\* current what it stored.
RECURSIVE DeserialiseUnsignedIntegerRelative(_, _, _, _)
DeserialiseUnsignedIntegerRelative(rd, w, previous, tier) ==
    LET failed == [ok |-> FALSE, current |-> {}, reader |-> rd]
        tiers == RelativeTiers(w)
    IN  IF tier > Len(tiers)
        THEN LET raw == DeserialiseInteger(rd, w, {}, AllOnes(w))
             IN  [ok |-> raw.ok, current |-> raw.value, reader |-> raw.reader]
        ELSE LET flag == DeserialiseBool(rd)
             IN  IF ~flag.ok THEN failed
                 ELSE IF ~flag.value
                 THEN DeserialiseUnsignedIntegerRelative(flag.reader, w, previous, tier + 1)
                 ELSE IF tier = 1
                 THEN [ok |-> TRUE, current |-> AddBits(previous, BitsOf(1), w),
                       reader |-> flag.reader]
                 ELSE LET difference == DeserialiseInteger(flag.reader, w,
                                                           BitsOf(tiers[tier].min),
                                                           BitsOf(tiers[tier].max))
                      IN  [ok |-> difference.ok,
                           current |-> AddBits(previous, difference.value, w),
                           reader |-> difference.reader]

\* The rows of the specification's table above "otherwise": the diff range
\* of each; the row marked "u32 only" is there for a 32-bit T alone.
RelativeRows(w) ==
    <<[min |-> 1, max |-> 1], [min |-> 2, max |-> 5], [min |-> 6, max |-> 21],
      [min |-> 22, max |-> 277], [min |-> 278, max |-> 4373]>>
        \o (IF w = 32 THEN <<[min |-> 4374, max |-> 69909]>> ELSE << >>)

\* SerialiseUnsignedIntegerRelative(previous, current, writer) as the
\* specification's table has it: diff = (current - previous) mod 2^width,
\* the first row that holds diff wins, a 0 flag for every row passed over;
\* otherwise the raw value in width bits.
RECURSIVE SerialiseUnsignedIntegerRelative(_, _, _, _, _)
SerialiseUnsignedIntegerRelative(wr, w, previous, current, tier) ==
    LET diff == SubBits(current, previous, w)
        tiers == RelativeRows(w)
    IN  IF tier > Len(tiers)
        THEN SerialiseInteger(wr, w, current, {}, AllOnes(w))
        ELSE IF ~LessBits(diff, BitsOf(tiers[tier].min))
                /\ ~LessBits(BitsOf(tiers[tier].max), diff)
        THEN LET flagged == WriteBits(wr, BitsOf(1), 1)
             IN  IF tier = 1 THEN flagged
                 ELSE SerialiseInteger(flagged, w, diff, BitsOf(tiers[tier].min),
                                       BitsOf(tiers[tier].max))
        ELSE SerialiseUnsignedIntegerRelative(WriteBits(wr, {}, 1), w, previous, current,
                                              tier + 1)

\* The calls checked: 16-bit values previous and current in a T of 16 or
\* 32 bits, current at differences on both sides of every tier limit, at
\* 0, at half the range and at 65535, from previous values at both ends
\* of the range and inside it.
RelativePrevious == {0, 1, 1000, 32768, 65530, 65535}
RelativeDifferences ==
    {0, 1, 2, 5, 6, 11, 21, 22, 277, 278, 1536, 4373, 4374, 30000, 32768, 65535}

RelativeInit ==
    /\ ProgramInit
    /\ BufferInit
    /\ ThreadInit
    /\ UnreliableInit
    /\ \E w \in IntegerWidths, previous \in RelativePrevious, d \in RelativeDifferences,
          lead \in LeadingBits :
           call_args = [op |-> "SerialiseUnsignedIntegerRelative", w |-> w,
                        previous |-> BitsOf(previous), current |-> BitsOf(U16(previous + d)),
                        lead |-> lead]
    /\ call_result = NoCall

\* SerialiseUnsignedIntegerRelative(previous, current, writer) behind the
\* leading bits, one more one bit and FlushBits.
WriteRelative ==
    LET before == LeadWriter(call_args.lead)
        after == SerialiseUnsignedIntegerRelative(before, call_args.w, call_args.previous,
                                                  call_args.current, 1)
    IN  /\ call_result = NoCall
        /\ call_result' =
               [op |-> "SerialiseUnsignedIntegerRelative",
                data |-> FlushBits(WriteBits(after, BitsOf(1), 1)).m_data,
                bits_written |-> after.m_bits_written - before.m_bits_written]
        /\ UNCHANGED callFrame

\* reader.DeserialiseUnsignedIntegerRelative(previous, current) on the words
\* written, behind the leading bits.
ReadRelative ==
    LET start == NewReader(call_result.data)
        before == IF call_args.lead = 0 THEN start ELSE ReadBits(start, call_args.lead)
        out == DeserialiseUnsignedIntegerRelative(before, call_args.w, call_args.previous, 1)
    IN  /\ call_result.op = "SerialiseUnsignedIntegerRelative"
        /\ call_result' =
               [op |-> "DeserialiseUnsignedIntegerRelative", ok |-> out.ok,
                current |-> out.current,
                bits_written |-> call_result.bits_written,
                bits_read |-> out.reader.m_bits_read - before.m_bits_read]
        /\ UNCHANGED callFrame

RelativeNext == WriteRelative \/ ReadRelative

SpecRelative == RelativeInit /\ [][RelativeNext]_vars

\* C30: for 16-bit values previous and current, decoding with
\* DeserialiseUnsignedIntegerRelative(previous) what
\* SerialiseUnsignedIntegerRelative(previous, current) wrote succeeds and
\* yields current, reading the bits that were written: across the wrap and
\* when current equals previous as well.
C30_RelativeRoundTrip ==
    call_result.op = "DeserialiseUnsignedIntegerRelative" =>
        /\ call_result.ok
        /\ call_result.current = call_args.current
        /\ call_result.bits_read = call_result.bits_written

\* previous = 65530 and current = 5 were written behind three 0 flags and
\* decoded by the 16-bit decoder.
C30_Witness ==
    /\ call_result.op = "DeserialiseUnsignedIntegerRelative"
    /\ call_args.w = 16
    /\ call_args.previous = BitsOf(65530)
    /\ call_args.current = BitsOf(5)
    /\ call_result.current = BitsOf(5)
    /\ call_result.bits_read = 3 + BitsRequired(6, 21)

(***************************************************************************)
(* GetRelativeSequenceEncodingBits on its own, against the table of        *)
(* SerialiseBitTests.cpp.                                                  *)
(***************************************************************************)
\* first_sequence, and how far second_sequence is ahead of it: the ends of
\* every tier, no difference at all, and the whole range.
EncodingBases == {0, 1, 100, 1000, 65000, 65530, SeqMod - 1}
EncodingDifferences == {0, 1, 2, 5, 6, 21, 22, 277, 278, 4373, 4374, HalfSeq, SeqMod - 1}

EncodingInit ==
    /\ ProgramInit
    /\ BufferInit
    /\ ThreadInit
    /\ UnreliableInit
    /\ \E first_sequence \in EncodingBases, d \in EncodingDifferences :
           call_args = [op |-> "GetRelativeSequenceEncodingBits",
                        first_sequence |-> first_sequence,
                        second_sequence |-> U16(first_sequence + d)]
    /\ call_result = NoCall

EncodingBits ==
    /\ call_result = NoCall
    /\ call_result' =
           [op |-> "GetRelativeSequenceEncodingBits",
            bits |-> GetRelativeSequenceEncodingBits(call_args.first_sequence,
                                                     call_args.second_sequence)]
    /\ UNCHANGED callFrame

EncodingNext == EncodingBits

SpecEncoding == EncodingInit /\ [][EncodingNext]_vars

\* What the table gives for a difference: the five tiers, and 32 bits when
\* the two sequences are equal.
TableBits(diff) ==
    IF diff = 0 THEN bits_per_uint32_t
    ELSE IF diff = 1 THEN 1
    ELSE IF diff <= 5 THEN 2 + BitsRequired(2, 5)
    ELSE IF diff <= 21 THEN 3 + BitsRequired(6, 21)
    ELSE IF diff <= 277 THEN 4 + BitsRequired(22, 277)
    ELSE 5 + BitsRequired(278, 4373)

\* C31: the bits returned depend only on diff = (second - first) mod 65536
\* (they are those returned for (0, diff)), and they are 1 for diff = 1,
\* 2 + BitsRequired(2, 5) for 2..5, 3 + BitsRequired(6, 21) for 6..21,
\* 4 + BitsRequired(22, 277) for 22..277, 5 + BitsRequired(278, 4373) for
\* 278..4373, and 32 for equal sequences.
C31_EncodingBitsTable ==
    call_result.op = "GetRelativeSequenceEncodingBits" =>
        LET diff == U16(call_args.second_sequence - call_args.first_sequence)
        IN  /\ call_result.bits = GetRelativeSequenceEncodingBits(0, diff)
            /\ diff <= 4373 => call_result.bits = TableBits(diff)

(***************************************************************************)
(* BitWriter::WriteBytes and BitReader::ReadBytes.  A byte is a number     *)
(* 0..255; a word of the buffer holds four of them, the first in its low   *)
(* bits (little-endian host).  The buffer handed to the writer is zeroed   *)
(* and ByteBufferWords words long, as in the round-trip test.              *)
(***************************************************************************)
bits_per_byte == 8
bytes_per_uint32_t == 4

\* Four bytes as the word std::copy_n stores them in, and byte j of a word.
WordOf(bytes4) ==
    UNION {ShiftLeft(BitsOf(bytes4[j + 1]), bits_per_byte * j) : j \in 0 .. (bytes_per_uint32_t - 1)}
ByteAt(word, j) == NumberOf(Truncate(ShiftRight(word, bits_per_byte * j), bits_per_byte))

\* BitWriter::WriteZeroPaddingToAlignByteBoundary
WriteZeroPaddingToAlignByteBoundary(wr) ==
    LET remainder_bits == wr.m_bits_written % bits_per_byte
    IN  IF remainder_bits # 0 THEN WriteBits(wr, {}, bits_per_byte - remainder_bits) ELSE wr

\* for (i...) WriteBits(data[i], bits_per_byte)
RECURSIVE WriteEachByte(_, _)
WriteEachByte(wr, data) ==
    IF data = << >> THEN wr
    ELSE WriteEachByte(WriteBits(wr, BitsOf(Head(data)), bits_per_byte), Tail(data))

\* BitWriter::WriteBytes(data, bytes), the DEBUG_ASSERTs left to the caller
\* below.  At a word boundary the scratch is empty and m_32_bit_int_index
\* is the number of words stored.
WriteBytes(wr, data) ==
    LET bytes == Len(data)
        to_boundary == (bytes_per_uint32_t
                           - ((wr.m_bits_written % bits_per_uint32_t) \div bits_per_byte))
                       % bytes_per_uint32_t
        head_bytes == IF to_boundary > bytes THEN bytes ELSE to_boundary
        head == WriteEachByte(wr, SubSeq(data, 1, head_bytes))
        number_of_32_bit_integers == (bytes - head_bytes) \div bytes_per_uint32_t
        copied == [head EXCEPT
                     !.m_data = @ \o [k \in 1 .. number_of_32_bit_integers |->
                                         WordOf(SubSeq(data,
                                                       head_bytes + (bytes_per_uint32_t * (k - 1)) + 1,
                                                       head_bytes + (bytes_per_uint32_t * k)))],
                     !.m_bits_written = @ + (number_of_32_bit_integers * bits_per_uint32_t)]
        tail_start == head_bytes + (number_of_32_bit_integers * bytes_per_uint32_t)
    IN  IF head_bytes = bytes THEN head
        ELSE WriteEachByte(copied, SubSeq(data, tail_start + 1, bytes))

\* BitReader::SkipToByteBoundaryAndVerifyZeroPadding: ok is what it returns.
SkipToByteBoundaryAndVerifyZeroPadding(rd) ==
    LET remainder_bits == rd.m_bits_read % bits_per_byte
        read == ReadBits(rd, bits_per_byte - remainder_bits)
    IN  IF remainder_bits # 0 THEN [reader |-> read, ok |-> read.output = {}]
        ELSE [reader |-> rd, ok |-> TRUE]

\* for (i...) data[i] = ReadBits(bits_per_byte)
RECURSIVE ReadEachByte(_, _)
ReadEachByte(rd, bytes) ==
    IF bytes = 0 THEN [reader |-> rd, data |-> << >>]
    ELSE LET read == ReadBits(rd, bits_per_byte)
             rest == ReadEachByte(read, bytes - 1)
         IN  [reader |-> rest.reader, data |-> <<NumberOf(read.output)>> \o rest.data]

\* m_bitpacked_data[index]; a word behind the buffer is not the buffer's.
WordAt(rd, index) ==
    IF index < Len(rd.m_bitpacked_data) THEN rd.m_bitpacked_data[index + 1] ELSE {}

\* BitReader::ReadBytes(data, bytes): data is what it stored, past_end
\* whether the copy read behind the buffer.  The whole words are copied
\* from &m_bitpacked_data[number_of_32_bit_integers].
ReadBytes(rd, bytes) ==
    LET to_boundary == (bytes_per_uint32_t
                           - ((rd.m_bits_read % bits_per_uint32_t) \div bits_per_byte))
                       % bytes_per_uint32_t
        head_bytes == IF to_boundary > bytes THEN bytes ELSE to_boundary
        head == ReadEachByte(rd, head_bytes)
        number_of_32_bit_integers == (bytes - head_bytes) \div bytes_per_uint32_t
        copied == [k \in 1 .. (number_of_32_bit_integers * bytes_per_uint32_t) |->
                      ByteAt(WordAt(rd, number_of_32_bit_integers
                                            + ((k - 1) \div bytes_per_uint32_t)),
                             (k - 1) % bytes_per_uint32_t)]
        after_copy == [head.reader EXCEPT
                      !.m_bits_read = @ + (number_of_32_bit_integers * bits_per_uint32_t),
                      !.m_32_bit_int_index = @ + number_of_32_bit_integers]
        tail_start == head_bytes + (number_of_32_bit_integers * bytes_per_uint32_t)
        tail == ReadEachByte(after_copy, bytes - tail_start)
    IN  IF head_bytes = bytes
        THEN [reader |-> head.reader, data |-> head.data, past_end |-> FALSE]
        ELSE [reader |-> tail.reader, data |-> head.data \o copied \o tail.data,
              past_end |-> 2 * number_of_32_bit_integers > Len(rd.m_bitpacked_data)]

\* The calls checked: nothing, three bits, a whole word or a word and three
\* bits before the bytes; 0 .. MaxBytes bytes, counted up from 0xA0 as in
\* the test or all 0xFF; one more byte behind them; a build with or without
\* the DEBUG_ASSERTs.
LeadFields == {<< >>, <<3>>, <<bits_per_uint32_t>>, <<bits_per_uint32_t, 3>>}
ByteStrings ==
    UNION {{[i \in 1 .. n |-> 160 + (i - 1)], [i \in 1 .. n |-> 255]} : n \in 0 .. MaxBytes}
TrailingByte == 90

BytesInit ==
    /\ ProgramInit
    /\ BufferInit
    /\ ThreadInit
    /\ UnreliableInit
    /\ \E lead \in LeadFields, data \in ByteStrings, debug \in BOOLEAN :
           call_args = [op |-> "WriteBytes", lead |-> lead, data |-> data, debug |-> debug]
    /\ call_result = NoCall

RECURSIVE WriteLead(_, _)
WriteLead(wr, lead) ==
    IF lead = << >> THEN wr
    ELSE WriteLead(WriteBits(wr, AllOnes(Head(lead)), Head(lead)), Tail(lead))

\* The writer of the round-trip test: the bits before, the alignment,
\* WriteBytes, one more value, FlushBits.
WriteByteString ==
    /\ call_result = NoCall
    /\ call_result' =
           IF call_args.debug /\ Len(call_args.data) = 0
           THEN \* DEBUG_ASSERT(bytes > 0U)
                [op |-> "WriteBytes", asserted |-> TRUE, buffer |-> << >>]
           ELSE LET aligned == WriteZeroPaddingToAlignByteBoundary(
                                   WriteLead(NewWriter, call_args.lead))
                    written == WriteBytes(aligned, call_args.data)
                    flushed == FlushBits(WriteBits(written, BitsOf(TrailingByte), bits_per_byte))
                IN  [op |-> "WriteBytes", asserted |-> FALSE,
                     buffer |-> [k \in 1 .. ByteBufferWords |->
                                    IF k <= Len(flushed.m_data) THEN flushed.m_data[k] ELSE {}]]
    /\ UNCHANGED callFrame

RECURSIVE ReadLead(_, _)
ReadLead(rd, lead) == IF lead = << >> THEN rd ELSE ReadLead(ReadBits(rd, Head(lead)), Tail(lead))

\* The reader of the round-trip test on the buffer written.
ReadByteString ==
    /\ call_result.op = "WriteBytes"
    /\ ~call_result.asserted
    /\ LET skip == SkipToByteBoundaryAndVerifyZeroPadding(
                       ReadLead(NewReader(call_result.buffer), call_args.lead))
           read == ReadBytes(skip.reader, Len(call_args.data))
           last == ReadBits(read.reader, bits_per_byte)
       IN  call_result' = [op |-> "ReadBytes", asserted |-> FALSE, aligned |-> skip.ok,
                           data |-> read.data, past_end |-> read.past_end,
                           trailing |-> NumberOf(last.output)]
    /\ UNCHANGED callFrame

BytesNext == WriteByteString \/ ReadByteString

SpecBytes == BytesInit /\ [][BytesNext]_vars

\* C32: bytes written with WriteBytes at a byte-aligned position, after any
\* bits and the alignment, are returned verbatim by ReadBytes after the
\* matching alignment skip, whatever their number from 0 to MaxBytes, and
\* the value written behind them is read back unchanged.
C32_ByteRoundTrip ==
    /\ call_result.op = "WriteBytes" => ~call_result.asserted
    /\ call_result.op = "ReadBytes" =>
           /\ call_result.aligned
           /\ ~call_result.past_end
           /\ call_result.data = call_args.data
           /\ call_result.trailing = TrailingByte

(***************************************************************************)
(* GetPacketData with a regular message due.                               *)
(***************************************************************************)
\* The oldest unacked message of connection c is a regular message due for
\* (re)sending.
RegularMessageDue(c) ==
    /\ HasMessagesToSend(c)
    /\ RB_Find(m_message_send_queues, message_send_queue_size, c,
               m_oldest_unacked_message_ids[c])
    /\ LET entry == RB_Data(m_message_send_queues, message_send_queue_size, c,
                            m_oldest_unacked_message_ids[c])
       IN  /\ ~entry.block
           /\ entry.m_channel_message.body # NoBody
           /\ entry.time_last_sent + message_resend_time_milliseconds <= now

\* available_bits holds the channel index, the block flag, the message
\* flag, the message count and that message with its 16-bit id and type,
\* and what GetMessagesToSend keeps in reserve.
CoversOldest(c, available_bits) ==
    available_bits >= (2 * channel_index_bits) + number_of_messages_bits + 1 + 1
                      + RB_Data(m_message_send_queues, message_send_queue_size, c,
                                m_oldest_unacked_message_ids[c]).measuredBits
                      + message_type_bits + 16 + giveUpBits

\* C33: when the oldest unacked message of connection c is a regular
\* message due for sending and available_bits covers the channel header and
\* that message, GetPacketData writes at least one message and returns a
\* positive number of bits.
C33_DueMessageIsWritten ==
    [][\A c \in PumpConns, available_bits \in Budgets :
         (/\ RegularMessageDue(c)
          /\ CoversOldest(c, available_bits)
          /\ last_op'.op = "GetPacketData"
          /\ last_op'.c = c
          /\ \E packet_sequence \in PacketSequences, mem \in FragmentAllocations,
                message_type \in MessageTypes :
                 GetPacketData(c, available_bits, packet_sequence, mem, message_type))
         => /\ last_op'.ret > 0
            /\ last_op'.s # << >>
            /\ last_op'.s[1] >= 1
      ]_vars


(***************************************************************************)
(* Acknowledgements of fragment packets and the send block.  Several       *)
(* connections send blocks, hand packets out and take acknowledgements, so *)
(* that a connection meets sent-packet entries of other block messages     *)
(* than the one it is sending.                                             *)
(***************************************************************************)
\* Connection slots that send and acknowledge fragments here.
MaxAckConnections == 2
AckConns == {c \in Conns : c < MaxAckConnections}

AckNext ==
    \/ \E c \in AckConns :
           /\ SharedSends < MaxSharedSends
           /\ SendMessage(c, 1)
    \/ \E c \in AckConns, packet_sequence \in AckConns :
           GetPacketData(c, 0, packet_sequence, "ok", 1)
    \/ \E c \in AckConns, sequence \in PacketSequences : ProcessAcknowledgement(c, sequence)
    \/ \E c \in AckConns : Reset(c)
    \/ Tick

SpecAck == Init /\ [][AckNext]_vars

\* The sent-packet entry ProcessAcknowledgement(c, sequence) finds.
AckedEntry(c, sequence) == RB_Data(m_sent_packets, message_sent_queue_size, c, sequence)

\* The entry found is that of a fragment packet.
FragmentAcked(c, sequence) ==
    /\ RB_Find(m_sent_packets, message_sent_queue_size, c, sequence)
    /\ AckedEntry(c, sequence).block

\* The send block of c is sending the block message the entry names.
BlockActive(c, messageId) ==
    /\ m_send_blocks[c].active
    /\ m_send_blocks[c].block_message_id = messageId

ResendStep == 300
MaxResendTicks == 2
\* SendMessage calls of all connections together.
MaxResendSends == 4
\* The budgets GetMessagesToSend is given.
ResendBudgets == {giveUpBits, LargeBudget}

\* GetMessagesToSend(connection_index, messageIds, numMessageIds, available_bits)
TakeMessagesToSend(c, available_bits) ==
    /\ ~crashed
    /\ IF ~HasMessagesToSend(c)
       THEN \* ASSERT_CRASH(HasMessagesToSend(connection_index))
            /\ crashed' = TRUE
            /\ last_op' = Op("GetMessagesToSend", c, {"assert"})
            /\ UNCHANGED m_message_send_queues
       ELSE \E r \in {GetMessagesToSend(c, available_bits)} :
              /\ m_message_send_queues' = r.q
              /\ last_op' = OpOut("GetMessagesToSend", c,
                                  IF \E i \in 1 .. Len(r.ids) :
                                        RB_Data(m_message_send_queues, message_send_queue_size,
                                                c, r.ids[i]).time_last_sent >= 0
                                  THEN {"taken again"}
                                  ELSE IF r.ids = << >> THEN {"none taken"} ELSE {"taken"},
                                  r.ids, r.usedBits)
              /\ UNCHANGED crashed
    /\ UNCHANGED <<m_error_level_array, m_send_message_ids, m_oldest_unacked_message_ids,
                   recvVars, m_counters_array, pumpVars, m_receive_blocks, oob_write,
                   sends, accepted, delivered, fragments_fed>>
    /\ UNCHANGED <<linkVars, in_flight>>

\* The clock of the connection manager moves on.
Elapse ==
    /\ ~crashed
    /\ now < MaxResendTicks * ResendStep
    /\ now' = now + ResendStep
    /\ last_op' = Op("Elapse", 0, {})
    /\ UNCHANGED <<m_error_level_array, sendVars, recvVars, m_counters_array,
                   m_sent_packets, m_sent_packet_message_ids_array, m_send_blocks,
                   m_receive_blocks, faultVars,
                   sends, accepted, delivered, fragments_fed>>
    /\ UNCHANGED <<linkVars, in_flight>>

\* Connection 0 takes regular messages, connection 1 sends a block.
MessageConns == PumpConns
BlockConns == AckConns \ PumpConns

ResendNext ==
    \/ \E c \in AckConns, block_size \in {0, max_fragment_size + 1} :
           /\ SharedSends < MaxResendSends
           /\ SendMessage(c, block_size)
    \/ \E c \in MessageConns, available_bits \in ResendBudgets :
           TakeMessagesToSend(c, available_bits)
    \/ \E c \in BlockConns, packet_sequence \in AckConns :
           GetPacketData(c, 0, packet_sequence, "ok", 1)
    \/ \E c \in BlockConns, sequence \in AckConns : ProcessAcknowledgement(c, sequence)
    \/ \E c \in MessageConns : Reset(c)
    \/ Elapse

SpecResend == Init /\ [][ResendNext]_vars

\* The fragments the step hands out for connection c: those whose
\* fragment_send_time the step sets.
FragmentsSent(c) ==
    {f \in Fragments :
        /\ m_send_blocks'[c].fragment_send_time[f] = now
        /\ (m_send_blocks[c].active => m_send_blocks[c].fragment_send_time[f] # now)}

\* C35: a message GetMessagesToSend takes that was taken before was last
\* taken at least message_resend_time milliseconds ago; a fragment handed
\* out while its block is being sent is not acknowledged, and if it was
\* handed out before, that was more than fragment_resend_time milliseconds
\* ago.
C35_ResendOnlyWhenDue ==
    [][\A c \in AckConns :
         /\ (last_op'.op = "GetMessagesToSend" /\ last_op'.c = c /\ ~crashed)
            => \A i \in 1 .. Len(last_op'.s) :
                 LET entry == RB_Data(m_message_send_queues, message_send_queue_size, c,
                                      last_op'.s[i])
                 IN  entry.time_last_sent >= 0
                     => now - entry.time_last_sent >= message_resend_time_milliseconds
         /\ (last_op'.op = "GetPacketData" /\ last_op'.c = c /\ ~crashed
             /\ m_send_blocks[c].active)
            => \A f \in FragmentsSent(c) :
                 /\ f \notin m_send_blocks[c].acked_fragment
                 /\ m_send_blocks[c].fragment_send_time[f] > 0
                    => now - m_send_blocks[c].fragment_send_time[f]
                          > fragment_resend_time_milliseconds]_vars

\* Fragment 0 of a block of two went out a second time: fragment 1 is handed
\* out only once fragment 0 has been, so fragment 0, not acknowledged and
\* with the later send time, was handed out before and after fragment 1.
FragmentResent(c) ==
    /\ m_send_blocks[c].active
    /\ m_send_blocks[c].number_of_fragments = 2
    /\ 0 \notin m_send_blocks[c].acked_fragment
    /\ m_send_blocks[c].fragment_send_time[1] > 0
    /\ m_send_blocks[c].fragment_send_time[0] > m_send_blocks[c].fragment_send_time[1]

\* A fragment was handed out a second time and a message was taken a second
\* time.
C35_Resent ==
    /\ \E c \in BlockConns : FragmentResent(c)
    /\ last_op.op = "GetMessagesToSend"
    /\ last_op.note = {"taken again"}
    /\ ~crashed


(***************************************************************************)
(* The message ids of the sent packets.  The regular branch of             *)
(* GetPacketData (lines 374-389) is run on its own for several             *)
(* connections, so that packets of different connections are recorded one  *)
(* after the other and acknowledged afterwards.                            *)
(***************************************************************************)
\* GetPacketData from line 374 on: GetMessagesToSend, GetMessagePacketData,
\* AddMessagePacketEntry.
RegularPacketData(c, available_bits, packet_sequence) ==
    /\ ~crashed
    /\ HasMessagesToSend(c)
    /\ ~SendingBlockMessage(c)
    /\ \E r \in {GPD_Messages(c, available_bits, packet_sequence)} :
         /\ last_op' = OpOut("RegularPacketData", c, r.note, r.s, packet_sequence)
         /\ m_message_send_queues' = r.q
         /\ m_sent_packets' = r.sp
         /\ m_sent_packet_message_ids_array' = r.ids
         /\ crashed' \in (IF r.ub THEN BOOLEAN ELSE {r.crash})
    /\ UNCHANGED <<m_error_level_array, m_send_message_ids, m_oldest_unacked_message_ids,
                   recvVars, m_counters_array, m_send_blocks, now, m_receive_blocks,
                   oob_write, sends, accepted, delivered, fragments_fed>>
    /\ UNCHANGED <<linkVars, in_flight>>

PacketIdsNext ==
    \/ \E c \in AckConns :
           /\ SharedSends < MaxSharedSends
           /\ SendMessage(c, 0)
    \/ \E c \in AckConns, packet_sequence \in PacketSequences :
           RegularPacketData(c, LargeBudget, packet_sequence)
    \/ \E c \in AckConns, sequence \in PacketSequences : ProcessAcknowledgement(c, sequence)
    \/ Tick

SpecPacketIds == Init /\ [][PacketIdsNext]_vars

\* The sent-packet entry of packet `sequence` of connection c lists messages.
ListsMessages(sp, c, sequence) ==
    /\ RB_Find(sp, message_sent_queue_size, c, sequence)
    /\ ~RB_Data(sp, message_sent_queue_size, c, sequence).block
    /\ RB_Data(sp, message_sent_queue_size, c, sequence).numMessageIds > 0

\* The ids ProcessAcknowledgement(c, sequence) would walk.
IdsOfPacket(sp, array, c, sequence) ==
    PacketMessageIds(array, RB_Data(sp, message_sent_queue_size, c, sequence))

\* C36: recording a packet of one connection leaves the message ids listed
\* for the packets of every other connection as they were, and
\* ProcessAcknowledgement(c, p) removes from the send queue of c only ids
\* listed for packet p of c.
C36_PacketIdsPerConnection ==
    [][\A c \in AckConns :
         /\ (last_op'.op = "RegularPacketData" /\ last_op'.c = c /\ ~crashed')
            => \A other \in AckConns \ {c}, sequence \in PacketSequences :
                 (/\ ListsMessages(m_sent_packets, other, sequence)
                  /\ ListsMessages(m_sent_packets', other, sequence))
                 => IdsOfPacket(m_sent_packets', m_sent_packet_message_ids_array',
                                other, sequence)
                    = IdsOfPacket(m_sent_packets, m_sent_packet_message_ids_array,
                                  other, sequence)
         /\ (last_op'.op = "ProcessAcknowledgement" /\ last_op'.c = c /\ ~crashed
             /\ last_op'.ret \in PacketSequences
             /\ ListsMessages(m_sent_packets, c, last_op'.ret))
            => \A id \in 0 .. (message_send_queue_size + MaxExtraSends) :
                 (/\ RB_Find(m_message_send_queues, message_send_queue_size, c, id)
                  /\ ~RB_Find(m_message_send_queues', message_send_queue_size, c, id))
                 => \E i \in 1 .. MaxMessagesPerPacket :
                      /\ i <= Len(IdsOfPacket(m_sent_packets,
                                              m_sent_packet_message_ids_array,
                                              c, last_op'.ret))
                      /\ IdsOfPacket(m_sent_packets, m_sent_packet_message_ids_array,
                                     c, last_op'.ret)[i] = id]_vars


(***************************************************************************)
(* Datagrams and sets of fragments that the network delivers again.        *)
(***************************************************************************)
\* Endpoint 0 sends payloads whole or as fragments; the network reorders
\* the datagrams and may deliver one and keep a copy of it in flight; the
\* connection manager of endpoint 1 accepts every packet.  The counters
\* that repeated deliveries grow and the hand-overs are capped.
RepeatNext ==
    \/ \E c \in LinkConns, packet_bytes \in ReassemblyBytes(0) :
           SerialiseTo_rUDPPacket(0, c, packet_bytes)
    \/ \E c \in LinkConns, i \in 1 .. MaxInFlight, keep \in BOOLEAN :
           /\ Len(handed[1][c]) < MaxHandedPackets
           /\ rudp_counters[1][c].FragmantedPacketsReceived < MaxFragmentsCounted
           /\ rudp_counters[1][c].InvalidFragmantedPackets < MaxFragmentsCounted
           /\ Deserialise_rUDPPacket(1, c, i, keep, TRUE)

SpecRepeat == Init /\ [][RepeatNext]_vars

\* p is a regular packet that ReceiveRegularPacket reads a sequence from.
IsRegularPacket(p) ==
    LET h == ReadPacketHeader(p)
    IN  /\ ~Bit(p[1], 0)
        /\ h.bytes >= MIN_RUDP_HEADER_BYTES
        /\ h.bytes <= Len(p)
        /\ Len(p) - h.bytes <= max_packet_size

\* p is a fragment its packet's reassembly entry on endpoint e has already.
IsRepeatedFragment(e, c, p) ==
    LET fh == ReadFragmentHeader(p)
    IN  /\ Bit(p[1], 0)
        /\ fh.bytes >= 0
        /\ RB_Find(m_fragment_reassembly[e], fragment_reassembly_buffer_size, c, fh.sequence)
        /\ LET reassembly_data == RB_Data(m_fragment_reassembly[e],
                                          fragment_reassembly_buffer_size, c, fh.sequence)
           IN  /\ fh.num_fragments = reassembly_data.num_fragments_total
               /\ fh.fragment_id \in reassembly_data.fragment_received

\* This step hands a reassembled packet of endpoint e to the regular receive
\* path.
Reassembled(e, c) == Len(handed'[e][c]) = Len(handed[e][c]) + 1

\* The sequence the reassembled packet of this step carries.
ReassembledSequence(e, c) ==
    ReadPacketHeader(handed'[e][c][Len(handed'[e][c])]).sequence

WindowEntry0 == [packet_data |-> << >>, alloc |-> "null"]

\* ReliableBuffer(): ResetAll, for a buffer of such entries.
WindowInit ==
    /\ ProgramInit
    /\ ThreadInit
    /\ UnreliableInit
    /\ buffer = RB_ResetAll(max_element_number, WindowEntry0)
    /\ retained = [c \in Conns |-> {}]
    /\ call_args = NoCall
    /\ call_result = NoCall

\* The sequences the buffer is called with: from 0 on, up to the middle of
\* the 16-bit range and up to 65535.
WindowSequences ==
    (0 .. WindowSpread) \cup ((HalfSeq - WindowSpread) .. HalfSeq)
        \cup ((SeqMod - 1 - WindowSpread) .. (SeqMod - 1))

\* buffer.Insert(connection_index, sequence), or
\* buffer.InsertWithCleanup(connection_index, sequence, cleanup_function)
WindowInsert(c, sequence, cleanup) ==
    LET ins == IF cleanup
               THEN RB_InsertWithCleanup(buffer, max_element_number, c, sequence)
               ELSE RB_Insert(buffer, max_element_number, c, sequence)
    IN  /\ buffer' = ins.rb
        /\ call_result' = [op |-> "Insert", c |-> c, sequence |-> sequence, ok |-> ins.ok]
        /\ UNCHANGED <<call_args, retained, threadVars, unreliableVars, programVars>>

\* buffer.Remove(connection_index, sequence), or
\* buffer.RemoveWithCleanup(connection_index, sequence, cleanup_function)
WindowRemove(c, sequence, cleanup) ==
    /\ buffer' = IF cleanup
                 THEN RB_RemoveWithCleanup(buffer, max_element_number, c, sequence)
                 ELSE RB_Remove(buffer, max_element_number, c, sequence)
    /\ call_result' = [op |-> "Remove", c |-> c, sequence |-> sequence, ok |-> TRUE]
    /\ UNCHANGED <<call_args, retained, threadVars, unreliableVars, programVars>>

\* buffer.AdvanceSequence(connection_index, sequence), or
\* buffer.AdvanceSequenceWithCleanup(connection_index, sequence, cleanup_function)
WindowAdvanceSequence(c, sequence, cleanup) ==
    /\ buffer' = IF cleanup
                 THEN RB_AdvanceSequenceWithCleanup(buffer, max_element_number, c, sequence)
                 ELSE RB_AdvanceSequence(buffer, max_element_number, c, sequence)
    /\ call_result' = [op |-> "AdvanceSequence", c |-> c, sequence |-> sequence, ok |-> TRUE]
    /\ UNCHANGED <<call_args, retained, threadVars, unreliableVars, programVars>>

WindowNext ==
    \/ \E c \in UnitConns, sequence \in WindowSequences, cleanup \in BOOLEAN :
           WindowInsert(c, sequence, cleanup)
    \/ \E c \in UnitConns, sequence \in WindowSequences, cleanup \in BOOLEAN :
           WindowRemove(c, sequence, cleanup)
    \/ \E c \in UnitConns, sequence \in WindowSequences, cleanup \in BOOLEAN :
           WindowAdvanceSequence(c, sequence, cleanup)

SpecWindow == WindowInit /\ [][WindowNext]_vars

\* The sequences live in connection c of the buffer.
LiveSequences(c) ==
    {buffer.m_entry_sequence[c][i] : i \in 0 .. (max_element_number - 1)} \ {EMPTY}

\* sequence is one of the max_element_number sequences before m_sequence,
\* counted around the end of the 16-bit range.
InWindow(c, sequence) ==
    U16(buffer.m_sequence[c] - 1 - sequence) < max_element_number

\* C38: for every connection, after any sequence of Insert, Remove,
\* AdvanceSequence and their cleanup variants, the sequence of every live
\* entry lies in the wrap-aware window [m_sequence - max_element_number,
\* m_sequence - 1] and is stored at index sequence mod max_element_number.
C38_LiveEntriesInWindow ==
    \A c \in UnitConns : \A i \in 0 .. (max_element_number - 1) :
        buffer.m_entry_sequence[c][i] # EMPTY
            => /\ RB_GetIndex(max_element_number, buffer.m_entry_sequence[c][i]) = i
               /\ InWindow(c, buffer.m_entry_sequence[c][i])

\* An insertion has just filled a window that lies across the end of the
\* 16-bit range: 65535 and the sequences after it are live.
C38_Witness ==
    \E c \in UnitConns :
        /\ call_result.op = "Insert" /\ call_result.c = c /\ call_result.ok
        /\ buffer.m_sequence[c] = max_element_number - 1
        /\ (SeqMod - 1) \in LiveSequences(c)
        /\ Cardinality(LiveSequences(c)) = max_element_number


(***************************************************************************)
(* Lock on its own (Lock.cpp): threads with ids 1, 2, ... take and give    *)
(* back the write lock and read locks through WriteLockGuard and           *)
(* ReadLockGuard, so what a thread took last it gives back first.  A step  *)
(* is one access to the atomic m_lock_flag together with the accesses to   *)
(* m_write_count that only the write owner makes.                          *)
(***************************************************************************)
\* m_lock_flag.fetch_add(n) and fetch_sub(1) on the 32-bit flag, for n up to
\* 65535: a carry out of the read count reaches the thread id.
FlagAdd(flag, n) ==
    [read_count   |-> (flag.read_count + n) % (READ_COUNT_MASK + 1),
     write_thread |-> (flag.write_thread + ((flag.read_count + n) \div (READ_COUNT_MASK + 1)))
                         % (READ_COUNT_MASK + 1)]
FlagSub(flag) ==
    IF flag.read_count > 0 THEN [flag EXCEPT !.read_count = @ - 1]
    ELSE [read_count   |-> READ_COUNT_MASK,
          write_thread |-> (flag.write_thread + READ_COUNT_MASK) % (READ_COUNT_MASK + 1)]

lockFrame == <<receive_path, consumer, observed, jobVars, buffer, retained, call_args,
               call_result, unreliableVars, programVars>>

\* WriteLock up to its first loop: the thread that owns the flag counts one
\* more; any other thread goes on to compete.
WriteLock(t) ==
    /\ ~lock_failed
    /\ lock_threads[t].pc = "idle"
    /\ Len(lock_threads[t].guards) < MaxLockGuards
    /\ lock_threads[t].calls < MaxLockCalls
    /\ IF m_lock_flag.write_thread = t
       THEN /\ m_write_count' = (m_write_count + 1) % (READ_COUNT_MASK + 1)
            /\ lock_threads' = [lock_threads EXCEPT ![t].guards = <<"W">> \o @,
                                                    ![t].calls = @ + 1]
       ELSE /\ lock_threads' = [lock_threads EXCEPT ![t].pc = "WriteLock",
                                                    ![t].calls = @ + 1]
            /\ UNCHANGED m_write_count
    /\ UNCHANGED <<m_lock_flag, ndebug, lock_failed, lockFrame>>

\* m_lock_flag.compare_exchange_strong(EMPTY_FLAG, desired) succeeds, and
\* ++m_write_count.  A failed exchange changes nothing and is tried again.
WriteLockAcquire(t) ==
    /\ ~lock_failed
    /\ lock_threads[t].pc = "WriteLock"
    /\ m_lock_flag = EMPTY_FLAG
    /\ m_lock_flag' = [write_thread |-> t, read_count |-> 0]
    /\ m_write_count' = (m_write_count + 1) % (READ_COUNT_MASK + 1)
    /\ lock_threads' = [lock_threads EXCEPT ![t].pc = "idle", ![t].guards = <<"W">> \o @]
    /\ UNCHANGED <<ndebug, lock_failed, lockFrame>>

\* WriteUnlock, by the thread whose innermost guard is a WriteLockGuard.
WriteUnlock(t) ==
    /\ ~lock_failed
    /\ lock_threads[t].pc = "idle"
    /\ Len(lock_threads[t].guards) > 0
    /\ Head(lock_threads[t].guards) = "W"
    /\ IF ~ndebug /\ m_lock_flag.read_count # 0
       THEN \* DEBUG_ASSERT((m_lock_flag.load() & READ_COUNT_MASK) == 0)
            /\ lock_failed' = TRUE
            /\ UNCHANGED <<m_lock_flag, m_write_count, lock_threads>>
       ELSE /\ m_write_count' = (m_write_count + READ_COUNT_MASK) % (READ_COUNT_MASK + 1)
            /\ m_lock_flag' = IF m_write_count' = 0 THEN EMPTY_FLAG ELSE m_lock_flag
            /\ lock_threads' = [lock_threads EXCEPT ![t].guards = Tail(@)]
            /\ UNCHANGED lock_failed
    /\ UNCHANGED <<ndebug, lockFrame>>

\* ReadLock up to its first loop: the thread that owns the flag adds one to
\* it; any other thread goes on to compete.
ReadLock(t) ==
    /\ ~lock_failed
    /\ lock_threads[t].pc = "idle"
    /\ Len(lock_threads[t].guards) < MaxLockGuards
    /\ lock_threads[t].calls < MaxLockCalls
    /\ IF m_lock_flag.write_thread = t
       THEN /\ m_lock_flag' = FlagAdd(m_lock_flag, 1)
            /\ lock_threads' = [lock_threads EXCEPT ![t].guards = <<"R">> \o @,
                                                    ![t].calls = @ + 1]
       ELSE /\ lock_threads' = [lock_threads EXCEPT ![t].pc = "ReadLock",
                                                    ![t].calls = @ + 1]
            /\ UNCHANGED m_lock_flag
    /\ UNCHANGED <<m_write_count, ndebug, lock_failed, lockFrame>>

\* expected = (m_lock_flag.load() & READ_COUNT_MASK)
ReadLockLoad(t) ==
    /\ ~lock_failed
    /\ lock_threads[t].pc = "ReadLock"
    /\ lock_threads' = [lock_threads EXCEPT ![t].pc = "ReadLockExchange",
                                            ![t].expected = m_lock_flag.read_count]
    /\ UNCHANGED <<m_lock_flag, m_write_count, ndebug, lock_failed, lockFrame>>

\* m_lock_flag.compare_exchange_strong(expected, expected + 1)
ReadLockExchange(t) ==
    /\ ~lock_failed
    /\ lock_threads[t].pc = "ReadLockExchange"
    /\ IF m_lock_flag = [write_thread |-> 0, read_count |-> lock_threads[t].expected]
       THEN /\ m_lock_flag' = FlagAdd(m_lock_flag, 1)
            /\ lock_threads' = [lock_threads EXCEPT ![t].pc = "idle", ![t].expected = 0,
                                                    ![t].guards = <<"R">> \o @]
       ELSE /\ lock_threads' = [lock_threads EXCEPT ![t].pc = "ReadLock", ![t].expected = 0]
            /\ UNCHANGED m_lock_flag
    /\ UNCHANGED <<m_write_count, ndebug, lock_failed, lockFrame>>

\* ReadUnlock, by the thread whose innermost guard is a ReadLockGuard: the
\* whole body is the argument of a DEBUG_ASSERT, which a build without
\* DEBUG_ASSERT leaves out.
ReadUnlock(t) ==
    /\ ~lock_failed
    /\ lock_threads[t].pc = "idle"
    /\ Len(lock_threads[t].guards) > 0
    /\ Head(lock_threads[t].guards) = "R"
    /\ m_lock_flag' = IF ndebug THEN m_lock_flag ELSE FlagSub(m_lock_flag)
    /\ lock_failed' = (~ndebug /\ m_lock_flag.read_count = 0)
    /\ lock_threads' = [lock_threads EXCEPT ![t].guards = Tail(@)]
    /\ UNCHANGED <<m_write_count, ndebug, lockFrame>>

\* Thread t, holding nothing, enters and leaves n ReadLockGuard scopes in a
\* row while no other thread is in a call and nobody holds the write lock:
\* ReadLock and ReadUnlock, n times.
ReadLockScopes(t, n) ==
    /\ ~lock_failed
    /\ \A u \in LockThreads : lock_threads[u].pc = "idle"
    /\ lock_threads[t].guards = << >>
    /\ lock_threads[t].scopes < MaxScopeRuns
    /\ m_lock_flag.write_thread = 0
    /\ m_lock_flag.read_count + n <= READ_COUNT_MASK
    /\ m_lock_flag' = IF ndebug THEN FlagAdd(m_lock_flag, n) ELSE m_lock_flag
    /\ lock_threads' = [lock_threads EXCEPT ![t].scopes = @ + 1]
    /\ UNCHANGED <<m_write_count, ndebug, lock_failed, lockFrame>>

LockSpecInit ==
    /\ ProgramInit
    /\ BufferInit
    /\ UnreliableInit
    /\ RaceInit
    /\ \E release \in BOOLEAN : LockInit(release)
    /\ JobInit
    /\ call_args = NoCall
    /\ call_result = NoCall

\* How many scopes a run has: one, or as many as the read count can hold
\* less the guards the threads may hold besides.
ScopeRuns == {1, READ_COUNT_MASK}

LockNext ==
    \/ \E t \in LockThreads : WriteLock(t)
    \/ \E t \in LockThreads : WriteLockAcquire(t)
    \/ \E t \in LockThreads : WriteUnlock(t)
    \/ \E t \in LockThreads : ReadLock(t)
    \/ \E t \in LockThreads : ReadLockLoad(t)
    \/ \E t \in LockThreads : ReadLockExchange(t)
    \/ \E t \in LockThreads : ReadUnlock(t)
    \/ \E t \in LockThreads, n \in ScopeRuns : ReadLockScopes(t, n)

SpecLock == LockSpecInit /\ [][LockNext]_vars

\* Thread t holds the write lock, or a read lock: it has come back from
\* WriteLock, or ReadLock, and has not called the unlock that goes with it.
HoldsWrite(t) == \E k \in 1 .. Len(lock_threads[t].guards) : lock_threads[t].guards[k] = "W"
HoldsRead(t) == \E k \in 1 .. Len(lock_threads[t].guards) : lock_threads[t].guards[k] = "R"

\* C39: no thread holds the write lock of a Lock while a different thread
\* holds its write lock or a read lock, under any interleaving of WriteLock,
\* WriteUnlock, ReadLock and ReadUnlock by threads with distinct non-zero
\* ids, re-entrant write locking and read locking by the write owner
\* included.
C39_WriterExcludesOthers ==
    \A t \in LockThreads : \A u \in LockThreads \ {t} :
        HoldsWrite(t) => ~(HoldsWrite(u) \/ HoldsRead(u))


(***************************************************************************)
(* JobQueue on its own (JobQueue.cpp): threads push jobs to one JobQueue   *)
(* and work off the global queue.  A step is one access to m_job_count, to *)
(* m_jobs or to the global queue, each of which is atomic (std::atomic,    *)
(* LockQueue under its write lock), together with what the thread does to  *)
(* its own locals.                                                         *)
(***************************************************************************)
jobFrame == <<receive_path, consumer, observed, lockVars, buffer, retained, call_args,
              call_result, unreliableVars, programVars>>

\* Every push takes the test for the first job.
FirstJob_Any(prevCount) == TRUE

\* if (prevCount == 0): the thread that entered the first job is responsible
\* for execution.
FirstJob(prevCount) == prevCount = 0

\* Push: const std::int32_t prevCount = m_job_count.fetch_add(1).  The call
\* is made with pushOnly or without, by a thread that is outside every
\* JobQueue or inside a job of another one, or from a job of this JobQueue
\* that the thread is running.
Push(t, pushOnly, CurrentJobQueue) ==
    /\ job_history.pushed < MaxJobs
    /\ \/ /\ job_threads[t].pc = "idle"
          /\ CurrentJobQueue \in {"nullptr", "other"}
       \/ /\ job_threads[t].pc = "jobs"
          /\ job_threads[t].jobs # << >>
          /\ CurrentJobQueue = "this"
    /\ m_job_count' = m_job_count + 1
    /\ job_threads' = [job_threads EXCEPT
                          ![t].pc = "Push",
                          ![t].prevCount = m_job_count,
                          ![t].CurrentJobQueue = CurrentJobQueue,
                          ![t].pushOnly = pushOnly]
    /\ job_history' = [job_history EXCEPT !.pushed = @ + 1]
    /\ UNCHANGED <<m_jobs, m_job_queues, jobFrame>>

\* m_jobs.Push(job), and what Push decides then: Execute(), which begins
\* with ThreadLocal::CurrentJobQueue = this, or the global queue, or nothing.
PushJob(t) ==
    /\ job_threads[t].pc = "Push"
    /\ m_jobs' = Append(m_jobs, job_history.pushed)
    /\ job_threads' =
          [job_threads EXCEPT ![t] =
              IF ~FirstJob(@.prevCount)
              THEN [@ EXCEPT !.pc = IF job_threads[t].CurrentJobQueue = "this"
                                    THEN "jobs" ELSE "idle",
                             !.CurrentJobQueue = IF @ = "this" THEN "this" ELSE "nullptr"]
              ELSE IF @.CurrentJobQueue = "nullptr" /\ ~@.pushOnly
              THEN [@ EXCEPT !.pc = "Execute", !.CurrentJobQueue = "this", !.via = "push"]
              ELSE [@ EXCEPT !.pc = "PushGlobal"]]
    /\ UNCHANGED <<m_job_count, m_job_queues, job_history, jobFrame>>

\* Global::GGlobalQueue->Push(shared_from_this()), from Push.
PushGlobal(t) ==
    /\ job_threads[t].pc = "PushGlobal"
    /\ m_job_queues' = m_job_queues + 1
    /\ job_threads' = [job_threads EXCEPT
                          ![t].pc = IF job_threads[t].CurrentJobQueue = "this"
                                    THEN "jobs" ELSE "idle",
                          ![t].CurrentJobQueue = IF @ = "this" THEN "this" ELSE "nullptr"]
    /\ UNCHANGED <<m_jobs, m_job_count, job_history, jobFrame>>

\* LockQueue::PopAll
LockQueuePopAll(items) == [taken |-> items, left |-> << >>]

\* Execute: m_jobs.PopAll(jobs); jobCount = jobs.size()
ExecutePopAll(t) ==
    /\ job_threads[t].pc = "Execute"
    /\ m_jobs' = LockQueuePopAll(m_jobs).left
    /\ job_threads' = [job_threads EXCEPT ![t].pc = "jobs",
                                          ![t].jobs = LockQueuePopAll(m_jobs).taken,
                                          ![t].jobCount = Len(LockQueuePopAll(m_jobs).taken)]
    /\ UNCHANGED <<m_job_count, m_job_queues, job_history, jobFrame>>

\* jobs[i]->Execute()
ExecuteJob(t) ==
    /\ job_threads[t].pc = "jobs"
    /\ job_threads[t].jobs # << >>
    /\ job_threads' = [job_threads EXCEPT ![t].jobs = Tail(@)]
    /\ job_history' = [job_history EXCEPT !.run = Append(@, Head(job_threads[t].jobs))]
    /\ UNCHANGED <<m_jobs, m_job_count, m_job_queues, jobFrame>>

\* if (m_job_count.fetch_sub(jobCount) == jobCount) return; otherwise the
\* loop goes on, or, when the time slice is over (now >= end_tick_count),
\* the thread leaves the queue and is about to pass it to the global queue.
ExecuteCount(t, slice_over) ==
    /\ job_threads[t].pc = "jobs"
    /\ job_threads[t].jobs = << >>
    /\ slice_over => job_history.handoffs < MaxHandOffs
    /\ m_job_count' = m_job_count - job_threads[t].jobCount
    /\ job_threads' =
          [job_threads EXCEPT ![t] =
              IF m_job_count = @.jobCount
              THEN [@ EXCEPT !.pc = "idle", !.CurrentJobQueue = "nullptr", !.jobCount = 0]
              ELSE IF slice_over
              THEN [@ EXCEPT !.pc = "ExecuteGlobal", !.CurrentJobQueue = "nullptr",
                             !.jobCount = 0]
              ELSE [@ EXCEPT !.pc = "Execute", !.jobCount = 0]]
    /\ job_history' = [job_history EXCEPT
                          !.handoffs = IF m_job_count # job_threads[t].jobCount /\ slice_over
                                       THEN @ + 1 ELSE @]
    /\ UNCHANGED <<m_jobs, m_job_queues, jobFrame>>

\* Global::GGlobalQueue->Push(shared_from_this()); break;
ExecuteGlobal(t) ==
    /\ job_threads[t].pc = "ExecuteGlobal"
    /\ m_job_queues' = m_job_queues + 1
    /\ job_threads' = [job_threads EXCEPT ![t].pc = "idle"]
    /\ UNCHANGED <<m_jobs, m_job_count, job_history, jobFrame>>

\* ThreadManager::DoGlobalQueueWork: job_queue = Global::GGlobalQueue->Pop()
\* returns the JobQueue, and job_queue->Execute() begins.
DoGlobalQueueWork(t) ==
    /\ job_threads[t].pc = "idle"
    /\ m_job_queues > 0
    /\ m_job_queues' = m_job_queues - 1
    /\ job_threads' = [job_threads EXCEPT ![t].pc = "Execute", ![t].CurrentJobQueue = "this",
                                          ![t].via = "global"]
    /\ UNCHANGED <<m_jobs, m_job_count, job_history, jobFrame>>

JobNext ==
    \/ \E t \in JobThreads, pushOnly \in BOOLEAN, CurrentJobQueue \in {"nullptr", "other", "this"} :
           Push(t, pushOnly, CurrentJobQueue)
    \/ \E t \in JobThreads : PushJob(t)
    \/ \E t \in JobThreads : PushGlobal(t)
    \/ \E t \in JobThreads : ExecutePopAll(t)
    \/ \E t \in JobThreads : ExecuteJob(t)
    \/ \E t \in JobThreads, slice_over \in BOOLEAN : ExecuteCount(t, slice_over)
    \/ \E t \in JobThreads : ExecuteGlobal(t)
    \/ \E t \in JobThreads : DoGlobalQueueWork(t)

SpecJob == Init /\ [][JobNext]_vars

\* Thread t is running the jobs of the JobQueue: it is in the loop over the
\* jobs it took with PopAll, or in a Push that one of them makes.
Running(t) ==
    \/ job_threads[t].pc = "jobs" /\ job_threads[t].jobs # << >>
    \/ job_threads[t].pc \in {"Push", "PushGlobal"} /\ job_threads[t].CurrentJobQueue = "this"

\* C40: at most one thread at a time is running the jobs of a JobQueue,
\* under any interleaving of Push calls from several threads and of Execute
\* hand-offs through the global queue, the hand-off at the end of the
\* executing thread's time slice included.
C40_OneThreadRunsJobs ==
    \A t \in JobThreads : \A u \in JobThreads \ {t} : ~(Running(t) /\ Running(u))

\* A thread that took the JobQueue from the global queue after a hand-off at
\* the end of a time slice is running its jobs while another thread is in
\* the middle of a Push.
C40_Witness ==
    \E t \in JobThreads : \E u \in JobThreads \ {t} :
        /\ Running(t)
        /\ job_threads[t].via = "global"
        /\ job_history.handoffs > 0
        /\ job_threads[u].pc = "Push"

====
